---- MODULE Spec2Model ----
(***************************************************************************)
(* Season statistics service: the tiered cache and build guard in front of *)
(* the season aggregator (backend/app/routers/compare.py, load_season) and *)
(* the persisted JSON store (backend/app/services/cache_utils.py).         *)
(*                                                                         *)
(* load_season is a synchronous FastAPI endpoint, so it runs on a pool of  *)
(* worker threads (and on the prewarm thread); the module-level globals    *)
(* _MEM_SEASON and _BUILDING and the season_<year>.json files are shared   *)
(* by all of them without a lock.  Each action below is one stretch of the *)
(* handler between two accesses to that shared state.                      *)
(***************************************************************************)
EXTENDS Integers, FiniteSets, Sequences, TLC

\* ---- bounds -------------------------------------------------------------
NumRequests == 2          \* worker threads serving load_season
MaxSchemaVersion == 11    \* SCHEMA_VERSION is bumped at most up to here
MaxCalls == 3             \* load_season invocations in one run
MaxEvents == 1            \* environment events (clock, release) in one run
MaxTime == 30000          \* the clock stops here
TickSeconds == 21601      \* granularity of the clock
MaxData == 1              \* data the providers may return: 0..MaxData (0: no rows at all)
MaxRounds == 2            \* events in the schedule of a season

\* ---- program constants --------------------------------------------------
InitialSchemaVersion == 10
_MEM_TTL_SECONDS == 21600

Requests == 1..NumRequests
Years == {2021}

None == [none |-> TRUE]

VARIABLES
    SCHEMA_VERSION,   \* module constant of compare.py; changes only by a new release
    _MEM_SEASON,      \* year -> {"payload", "ts"} entry, or None
    _BUILDING,        \* set of years
    season_file,      \* year -> contents of season_<year>.json, or None
    tmp_file,         \* year -> contents of season_<year>.tmp, or None
    now,              \* time.time()
    calls,            \* load_season invocations so far
    events,           \* environment events so far
    pc,               \* request -> position in load_season
    year,             \* request -> argument year
    refresh,          \* request -> argument refresh
    entry,            \* request -> local `entry` of _mem_get
    cached,           \* request -> local `cached` of load_season
    payload,          \* request -> local `payload` of load_season
    response,         \* request -> what the caller receives
    consulted,        \* request -> tiers this invocation has consulted, in order
    sawBuild,         \* request -> no refresh, no reply yet, and a build in flight at its start still is
    memStale,         \* request -> its _mem_get read a TTL-expired entry, no build in flight
    scenarioD,        \* request -> started alone with both tiers under an old schema version
    before,           \* request -> the two tiers' entries at its start, while it runs alone
                      \*            towards the schedule fetch or has seen it fail (None otherwise)
    f1,               \* load_results_strict: what the primary provider hands back
    er,               \* load_results_strict: what the secondary provider hands back
    laps,             \* load_results_strict: what the lap timing of the primary hands back
    result,           \* load_results_strict: its outcome, (tag, frame) or an exception
    season,           \* season build: the year
    schedule,         \* season build: the RoundNumber of each event of the schedule
    ev,               \* season build: the event the loop of line 396 is at
    fetched,          \* season build: what the providers returned for the rounds so far
    results_by_driver, \* season build: code -> accumulator
    pole_counts,      \* season build: code -> poles
    pole_rounds,      \* season build: code -> rounds with the pole
    out,              \* season build: the drivers mapping of the payload
    step,             \* season build: "rounds" in the loop, "done" after it
    _SPRINT_ROUNDS_CACHE, \* sprint rounds: year -> the rounds detected once, or None
    sprint_rounds,    \* sprint rounds: the set of the build under way
    sprint_events,    \* sprint rounds: the rounds the schedule marks as sprint weekends
    saving,           \* season file: the payload handed to save_season
    tmp_text,         \* season file: the JSON text of season_<year>.tmp, or None
    file_text,        \* season file: the JSON text of season_<year>.json, or None
    loaded,           \* season file: what load_season returned last
    io                \* season file: how far save_season and load_season have come

\* the variables of the cache and build guard
cache == << SCHEMA_VERSION, _MEM_SEASON, _BUILDING, season_file, tmp_file, now,
            calls, events, pc, year, refresh, entry, cached, payload, response,
            consulted, sawBuild, memStale, scenarioD, before >>

\* the variables of the aggregator's pure functions, at rest while the cache runs
reconciler == << f1, er, laps, result >>

folding == << season, schedule, ev, fetched, results_by_driver, pole_counts,
              pole_rounds, out, step >>

store == << saving, tmp_text, file_text, loaded, io >>

sprint_state == << _SPRINT_ROUNDS_CACHE, sprint_rounds, sprint_events >>

aggregator == << reconciler, folding, store, sprint_state >>

vars == << cache, aggregator >>

shared == << SCHEMA_VERSION, _MEM_SEASON, _BUILDING, season_file, tmp_file, now >>

\* ---- data ---------------------------------------------------------------
\* The drivers mapping a build computes from the data k the providers return:
\* no driver at all when every round was skipped.
DriversOf(k) ==
    IF k = 0 THEN [c \in {} |-> 0] ELSE [c \in {"VER"} |-> 25 * k]

SeasonPayload(y, d) ==
    [schema_version |-> SCHEMA_VERSION, season |-> y, drivers |-> d]

NoResponse == [status |-> 0, cache |-> "", body |-> None]

BuildingBody(y) == [season |-> y, status |-> "building"]

ErrorBody == [detail |-> "error"]

\* positions of a request from the schedule fetch through the cache write
BuildRegion == {"schedule", "build", "save_replace", "mem_put"}

\* positions at which the year has been added to _BUILDING and the build runs
InFlightRegion == {"build", "save_replace", "mem_put"}

InFlight(y) == {q \in Requests : pc[q] \in InFlightRegion /\ year[q] = y}

\* ---- _mem_get -----------------------------------------------------------
\* (mutant: the operands of the age subtraction swapped)
ExpiredSwapped(e, t) == e.ts - t > _MEM_TTL_SECONDS

\* line 298: time.time() - entry.get('ts', 0) > _MEM_TTL_SECONDS
Expired(e, t) == t - e.ts > _MEM_TTL_SECONDS

\* (mutant: older schema versions accepted)
SchemaMatchesOlder(p) == p.schema_version <= SCHEMA_VERSION

\* lines 301 and 377: schema_version == SCHEMA_VERSION
SchemaMatches(p) == p.schema_version = SCHEMA_VERSION

\* ---- load_season: guards ------------------------------------------------
\* (mutant: the refresh flag inverted)
BuildingReplyOnRefresh(y, rf) == y \in _BUILDING /\ rf

\* line 370: year in _BUILDING and not refresh
BuildingReply(y, rf) == y \in _BUILDING /\ ~rf

\* (mutant: the drivers test left out)
DiskHitAnyDrivers(c) == c # None /\ SchemaMatches(c)

\* (mutant: the schema version test left out)
DiskHitAnyVersion(c) == c # None /\ DOMAIN c.drivers # {}

\* lines 376-377: cached and isinstance(cached, dict) and
\* cached.get("schema_version") == SCHEMA_VERSION and cached.get("drivers")
DiskHit(c) == c # None /\ SchemaMatches(c) /\ DOMAIN c.drivers # {}

\* ---- cache_utils --------------------------------------------------------
cache_load(y) == season_file[y]

\* ---- f1_utils: the result reconciler ------------------------------------
\* Driver codes, in the order the providers list them in one round.
Codes == << "VER", "HAM" >>

\* A cell pd.to_numeric(errors="coerce") could not read, or a missing cell.
NaN == -1

\* What a provider hands back for one round: the rows of a frame, no frame at
\* all (`results` is None), or an exception.
Frame(rows) == [state |-> "frame", rows |-> rows]
NoFrame == [state |-> "none", rows |-> << >>]
Raises == [state |-> "raise", rows |-> << >>]

\* (mutant: the points schedule in use until 2009)
points_map_2003(p) ==
    CASE p = 1 -> 10 [] p = 2 -> 8 [] p = 3 -> 6 [] p = 4 -> 5 [] p = 5 -> 4
      [] p = 6 -> 3 [] p = 7 -> 2 [] p = 8 -> 1 [] OTHER -> 0

\* line 237: points_map, and the fillna(0) of line 238 for every other position
points_map(p) ==
    CASE p = 1 -> 25 [] p = 2 -> 18 [] p = 3 -> 15 [] p = 4 -> 12 [] p = 5 -> 10
      [] p = 6 -> 8 [] p = 7 -> 6 [] p = 8 -> 4 [] p = 9 -> 2 [] p = 10 -> 1
      [] OTHER -> 0

\* Every frame made of at most one row per driver, the drivers in the order of
\* Codes; opts[i] is the set of rows the i-th driver may have.
RECURSIVE Frames(_)
Frames(opts) ==
    IF opts = << >> THEN { << >> }
    ELSE LET rest == Frames(Tail(opts))
         IN  rest \cup { << r >> \o t : r \in Head(opts), t \in rest }

\* Rows of ses_f1.results after _to_numeric (lines 162-168): the i-th driver is
\* classified i-th or has no readable position, has the points of the position,
\* none or unreadable ones, and a status that may be missing ("").
PrimaryRows(i) ==
    { [Abbreviation |-> Codes[i], Position |-> p, Points |-> q, Status |-> s] :
        p \in {NaN, i}, q \in {NaN, 0, points_map(i)}, s \in {"", "Retired"} }

\* Rows of ses_er.results after _to_numeric (lines 174-180); the secondary
\* provider counts the point for the fastest lap with the driver's points.
SecondaryRows(i) ==
    { [Abbreviation |-> Codes[i], Position |-> p, Points |-> q, Status |-> "Finished"] :
        p \in {NaN, i}, q \in {NaN, 0, points_map(i) + 1} }

\* The last lap of each driver (lines 232-233), drivers in the order of groupby;
\* the i-th driver has run 55 + i laps.
LapRows(i) ==
    { [Driver |-> Codes[Len(Codes) + 1 - i], Position |-> p, LapNumber |-> 55 + i] :
        p \in {NaN} \cup (1..Len(Codes)) }

PrimaryResults ==
    {Raises, NoFrame} \cup
    { Frame(rs) : rs \in Frames([i \in 1..Len(Codes) |-> PrimaryRows(i)]) }

SecondaryResults ==
    {Raises, NoFrame} \cup
    { Frame(rs) : rs \in Frames([i \in 1..Len(Codes) |-> SecondaryRows(i)]) }

LapResults ==
    {Raises, NoFrame} \cup
    { Frame(rs) : rs \in Frames([i \in 1..Len(Codes) |-> LapRows(i)]) }

RECURSIVE SumPoints(_)
\* pd.to_numeric(df["Points"], errors="coerce").fillna(0).sum()
SumPoints(rows) ==
    IF rows = << >> THEN 0
    ELSE (IF Head(rows).Points = NaN THEN 0 ELSE Head(rows).Points)
         + SumPoints(Tail(rows))

\* (mutant: a total of zero counts as points)
has_points_or_zero(df) ==
    df.state = "frame" /\ df.rows # << >> /\ SumPoints(df.rows) >= 0

\* lines 184-185
has_points(df) ==
    df.state = "frame" /\ df.rows # << >> /\ SumPoints(df.rows) > 0

\* (mutant: any row counts as a position)
has_rows(df) == df.state = "frame" /\ df.rows # << >>

\* lines 187-188
has_positions(df) ==
    /\ df.state = "frame"
    /\ df.rows # << >>
    /\ \E i \in DOMAIN df.rows : df.rows[i].Position # NaN

\* the rows of `rows` with the driver code c
Matching(rows, c) == { i \in DOMAIN rows : rows[i].Abbreviation = c }

\* the first of them (drop_duplicates keeps the first)
FirstOf(m) == CHOOSE i \in m : \A j \in m : i <= j

\* lines 68-78: the descriptive columns enrichment may fill
desired_cols ==
    {"Status", "GridPosition", "TeamName", "ConstructorName", "TeamColor",
     "FullName", "BroadcastName", "Driver", "DriverNumber"}

\* the value of a cell without a value: NaN in a numeric column, "" for a
\* missing text
Missing(col) ==
    IF col \in {"GridPosition", "Position", "Points"} THEN NaN ELSE ""

\* (mutant: an inner join, dropping the drivers the source does not list)
_enrich_inner(base, source) ==
    IF source.state # "frame" \/ source.rows = << >> THEN base
    ELSE SelectSeq(base, LAMBDA b : Matching(source.rows, b.Abbreviation) # {})

\* (mutant: what the source says replaces what the base says)
_enrich_overwriting(base, source) ==
    IF source.state # "frame" \/ source.rows = << >> THEN base
    ELSE [ i \in DOMAIN base |->
             LET m == Matching(source.rows, base[i].Abbreviation)
             IN  IF m = {} THEN base[i]
                 ELSE [ col \in DOMAIN base[i] |->
                          IF col \in desired_cols /\ col \in DOMAIN source.rows[FirstOf(m)]
                          THEN source.rows[FirstOf(m)][col] ELSE base[i][col] ] ]

\* lines 57-95: a left join on Abbreviation with the first row the source has
\* for the driver (lines 83-84); every column of desired_cols that the source
\* has is then the base's cell where the base has one, else the source's
\* (combine_first, lines 86-94).  Points and Position are not among
\* desired_cols.
_enrich_from_source(base, source) ==
    IF source.state # "frame" \/ source.rows = << >> THEN base
    ELSE [ i \in DOMAIN base |->
             LET m == Matching(source.rows, base[i].Abbreviation)
                 avail_cols == desired_cols \cap DOMAIN source.rows[1]
             IN  [ col \in DOMAIN base[i] \cup avail_cols |->
                     IF col \notin avail_cols THEN base[i][col]
                     ELSE LET own == IF col \in DOMAIN base[i] THEN base[i][col]
                                     ELSE Missing(col)
                              src == IF m = {} THEN Missing(col)
                                     ELSE source.rows[FirstOf(m)][col]
                          IN  IF own # Missing(col) THEN own ELSE src ] ]

\* The status texts of the providers.
StatusTexts ==
    {"", "Finished", "+1 Lap", "Lapped", "Retired", "Disqualified",
     "Did not start", "Excluded", "Not classified"}

\* line 123: str(...).strip().lower()
Lower(s) ==
    CASE s = "Finished" -> "finished" [] s = "Retired" -> "retired"
      [] s = "+1 Lap" -> "+1 lap" [] s = "Lapped" -> "lapped"
      [] s = "Disqualified" -> "disqualified"
      [] s = "Did not start" -> "did not start"
      [] s = "Excluded" -> "excluded"
      [] s = "Not classified" -> "not classified"
      [] OTHER -> s

\* line 125: status.startswith("+")
StartsWithPlus(status) == status \in {"+1 lap"}

\* lines 123-130: a status that is neither finish-like nor an exclusion is a DNF
StatusIsDnf(s) ==
    LET status == Lower(s)
    IN  /\ status # ""
        /\ ~StartsWithPlus(status)
        /\ status \notin {"finished", "lapped"}
        /\ status \notin {"disqualified", "did not start", "excluded"}

\* lines 97-137: by_abbr, from the results of a session of the primary provider
_build_dnf_maps(ses) ==
    IF ses.state # "frame" THEN [c \in {} |-> FALSE]
    ELSE [ c \in { ses.rows[i].Abbreviation : i \in DOMAIN ses.rows } |->
             LET m == Matching(ses.rows, c)
                 last == CHOOSE i \in m : \A j \in m : j <= i
             IN  StatusIsDnf(ses.rows[last].Status) ]

\* lines 139-150
_apply_dnf_column(df, dnf_by_abbr) ==
    [ i \in DOMAIN df |->
        [ col \in DOMAIN df[i] \cup {"DNF"} |->
            IF col # "DNF" THEN df[i][col]
            ELSE IF df[i].Abbreviation \in DOMAIN dnf_by_abbr
                 THEN dnf_by_abbr[df[i].Abbreviation] ELSE FALSE ] ]

\* lines 213-218: the primary's rows, their missing points filled from the
\* secondary's row of the same driver, what is still missing set to 0
MergePoints(a, b) ==
    [ i \in DOMAIN a.rows |->
        LET m == Matching(b.rows, a.rows[i].Abbreviation)
            Points_er == IF m = {} THEN NaN ELSE b.rows[FirstOf(m)].Points
            filled == IF a.rows[i].Points = NaN THEN Points_er ELSE a.rows[i].Points
        IN  [a.rows[i] EXCEPT !.Points = IF filled = NaN THEN 0 ELSE filled] ]

\* (mutant: among equal positions the driver with fewer laps comes first)
SortsBeforeFewerLaps(x, y) ==
    \/ x.Position # NaN /\ (y.Position = NaN \/ x.Position < y.Position)
    \/ x.Position = y.Position /\ x.LapNumber < y.LapNumber

\* line 235: sort_values(["PositionNum", "LapNumber"], ascending=[True, False]),
\* rows without a position last
SortsBefore(x, y) ==
    \/ x.Position # NaN /\ (y.Position = NaN \/ x.Position < y.Position)
    \/ x.Position = y.Position /\ x.LapNumber > y.LapNumber

\* lines 235-243: the provisional classification from the drivers' last laps
Derive(last) ==
    [ k \in 1..Len(last) |->
        LET i == CHOOSE i \in DOMAIN last :
                    Cardinality({ j \in DOMAIN last : SortsBefore(last[j], last[i]) }) = k - 1
        IN  [Abbreviation |-> last[i].Driver, Position |-> k,
             Points |-> points_map(k), Status |-> ""] ]

Returns(tag, df) == [state |-> "ok", tag |-> tag, df |-> df]
Raised == [state |-> "raise", tag |-> "", df |-> << >>]
Pending == [state |-> "pending", tag |-> "", df |-> << >>]

\* lines 171-182: a failure of the secondary provider leaves er = None
Recovered(b) == IF b.state = "raise" THEN NoFrame ELSE b

\* lines 152-248, for the primary result a, the secondary result b and the lap
\* timing l of one round
load_results_strict(a, b, l) ==
    LET e == Recovered(b) IN
    IF a.state = "raise" THEN Raised
    ELSE IF has_points(a)
    THEN Returns("fastf1",
            _apply_dnf_column(_enrich_from_source(a.rows, e), _build_dnf_maps(a)))
    ELSE IF has_points(e)
    THEN Returns("ergast",
            _apply_dnf_column(_enrich_from_source(e.rows, a), _build_dnf_maps(a)))
    ELSE IF has_positions(a) /\ e.state = "frame"
    THEN Returns("f1+ergast_points",
            _apply_dnf_column(
                _enrich_from_source(_enrich_from_source(MergePoints(a, e), e), a),
                _build_dnf_maps(a)))
    ELSE IF l.state = "raise" THEN Raised
    ELSE IF l.state = "none" \/ l.rows = << >>
    THEN Returns("derived_empty", << >>)
    ELSE Returns("derived",
            _apply_dnf_column(
                _enrich_from_source(_enrich_from_source(Derive(l.rows), e), a),
                _build_dnf_maps(a)))

\* no round is being reconciled
ReconcilerRest ==
    /\ f1 = NoFrame
    /\ er = NoFrame
    /\ laps = NoFrame
    /\ result = Pending

\* ---- compare.py: the season aggregation ---------------------------------
\* Seasons on both sides of the change of the sprint points (line 236).
SeasonYears == {2021, 2022}

\* The schedules of a season: its events in order, by RoundNumber; a schedule
\* may start with a testing event, which has round number 0.
Schedules ==
    { [i \in 1..n |-> i - z] : n \in 0..MaxRounds, z \in {0, 1} }

\* a dict without keys
EmptyDict == << >>

\* d[k] = v
Put(d, k, v) == [c \in DOMAIN d \cup {k} |-> IF c = k THEN v ELSE d[c]]

\* What the primary provider's session says of a driver (FullName, TeamName,
\* TeamColor of ses.results, lines 114-116).
FullNameOf(c) ==
    CASE c = "VER" -> "Max Verstappen" [] c = "HAM" -> "Lewis Hamilton"
      [] OTHER -> c
TeamNameOf(c) ==
    CASE c = "VER" -> "Red Bull Racing" [] c = "HAM" -> "Mercedes" [] OTHER -> ""
TeamColorOf(c) ==
    CASE c = "VER" -> "#3671C6" [] c = "HAM" -> "#27F4D2" [] OTHER -> ""

\* Race rows as load_results_strict returns them and lines 416-424 normalise
\* them: VER classified 1st, 3rd or 4th with the points of the position,
\* starting from pole, or 4th from an unknown grid position; HAM 2nd from the
\* second grid position, or retired without position, points or grid position.
VerRows ==
    { [Abbreviation |-> "VER", Position |-> p, Points |-> points_map(p),
       GridPosition |-> 1, DNF |-> FALSE] : p \in {1, 3, 4} }
    \cup { [Abbreviation |-> "VER", Position |-> 4, Points |-> points_map(4),
             GridPosition |-> NaN, DNF |-> FALSE] }

HamRows ==
    { [Abbreviation |-> "HAM", Position |-> 2, Points |-> points_map(2),
       GridPosition |-> 2, DNF |-> FALSE],
      [Abbreviation |-> "HAM", Position |-> NaN, Points |-> 0,
       GridPosition |-> NaN, DNF |-> TRUE] }

RaceFrames ==
    { << v >> : v \in VerRows } \cup { << v, h >> : v \in VerRows, h \in HamRows }

\* lines 403-408: the outcomes of load_results_strict that make the loop skip
\* the round
WithoutRows == { Raised, Returns("derived_empty", << >>) }

\* _fallback_grid_positions, lines 52-75: the qualifying classification, or {}
\* when the qualifying session fails or is empty; the poles take it into
\* account only when the race frame has no grid position at all
QualifyingMaps(df) ==
    IF \E i \in DOMAIN df : df[i].GridPosition # NaN THEN { EmptyDict }
    ELSE { EmptyDict, [c \in {"VER", "HAM"} |-> IF c = "HAM" THEN 1 ELSE 2] }

\* The sprint results of the two backends, in the order of line 217: no sprint
\* at all; the first backend failing and the second one reporting the points;
\* the first one listing the positions without any points.
SprintReported ==
    << [Abbreviation |-> "HAM", Position |-> 1, Points |-> 3],
       [Abbreviation |-> "VER", Position |-> 2, Points |-> 2] >>
SprintUnscored ==
    << [Abbreviation |-> "LEC", Position |-> 1, Points |-> NaN],
       [Abbreviation |-> "VER", Position |-> 2, Points |-> 0] >>
SprintResults ==
    { << NoFrame, NoFrame >>,
      << Raises, Frame(SprintReported) >>,
      << Frame(SprintUnscored), Frame(SprintReported) >> }

\* lines 236-239: the sprint points by position when none are reported
sp_map(y, p) ==
    IF y <= 2021
    THEN CASE p = 1 -> 3 [] p = 2 -> 2 [] p = 3 -> 1 [] OTHER -> 0
    ELSE CASE p \in 1..8 -> 9 - p [] OTHER -> 0

\* (mutant: the points by position replace the reported ones as well)
SprintPointsByPosition(y, rows) ==
    [ i \in DOMAIN rows |->
        [Abbreviation |-> rows[i].Abbreviation,
         __SPTS__ |-> sp_map(y, rows[i].Position)] ]

\* lines 228-242 for the frame of one backend: Points read as numbers with 0
\* for what is missing, and the column __SPTS__
SprintPoints(y, rows) ==
    LET use_fallback == SumPoints(rows) <= 0
    IN  [ i \in DOMAIN rows |->
            [Abbreviation |-> rows[i].Abbreviation,
             __SPTS__ |-> IF use_fallback THEN sp_map(y, rows[i].Position)
                          ELSE IF rows[i].Points = NaN THEN 0 ELSE rows[i].Points] ]

RECURSIVE _load_sprint_results(_, _)
\* lines 213-248: the first backend that answers with rows; << >> stands for
\* (None, None)
_load_sprint_results(y, backends) ==
    IF backends = << >> THEN << >>
    ELSE IF Head(backends).state # "frame" \/ Head(backends).rows = << >>
    THEN _load_sprint_results(y, Tail(backends))
    ELSE SprintPoints(y, Head(backends).rows)

\* lines 461-474 and 185-197: the entry setdefault creates
NewDriver(code, full_name, team, team_color, grid) ==
    [code |-> code, full_name |-> full_name, team |-> team,
     team_color |-> team_color, grid_position |-> grid, points |-> 0,
     wins |-> 0, podiums |-> 0, dnfs |-> 0, positions |-> << >>, poles |-> 0,
     pole_rounds |-> << >>]

\* (mutant: a finish on the podium is a finish better than third)
IsPodiumBelowThird(ipos) == ipos < 3

\* line 493
IsPodium(ipos) == ipos <= 3

\* line 491
IsWin(ipos) == ipos = 1

\* _driver_metadata, lines 93-128, for a driver of the race frame: the session
\* is the primary provider's own and lists the driver with the grid position
\* of the race row, or with the qualifying position when it has none
MetaGrid(row, fallback_grid) ==
    IF row.GridPosition # NaN THEN row.GridPosition
    ELSE IF row.Abbreviation \in DOMAIN fallback_grid
         THEN fallback_grid[row.Abbreviation] ELSE NaN

\* lines 445-508: one row of the race frame folded into results_by_driver
AggregateRow(rbd, row, fallback_grid) ==
    LET code == row.Abbreviation
        grid_numeric == MetaGrid(row, fallback_grid)
        d == IF code \in DOMAIN rbd THEN rbd[code]
             ELSE NewDriver(code, FullNameOf(code), TeamNameOf(code),
                            TeamColorOf(code), grid_numeric)
        pos == row.Position
    IN  Put(rbd, code,
            [d EXCEPT !.full_name = FullNameOf(code),
                      !.team = TeamNameOf(code),
                      !.team_color = TeamColorOf(code),
                      !.grid_position = IF grid_numeric # NaN THEN grid_numeric ELSE @,
                      !.points = @ + row.Points,
                      !.positions = IF pos # NaN THEN Append(@, pos) ELSE @,
                      !.wins = IF pos # NaN /\ IsWin(pos) THEN @ + 1 ELSE @,
                      !.podiums = IF pos # NaN /\ IsPodium(pos) THEN @ + 1 ELSE @,
                      !.dnfs = IF row.DNF THEN @ + 1 ELSE @])

RECURSIVE AggregateRows(_, _, _)
\* line 445: for _, row in df.iterrows()
AggregateRows(rbd, df, fallback_grid) ==
    IF df = << >> THEN rbd
    ELSE AggregateRows(AggregateRow(rbd, Head(df), fallback_grid), Tail(df),
                       fallback_grid)

\* lines 425-428: the GridPosition column, from the qualifying classification
\* when the race frame has no grid position at all
GridColumn(df, fallback_grid) ==
    IF (\A i \in DOMAIN df : df[i].GridPosition = NaN) /\ fallback_grid # EmptyDict
    THEN [ i \in DOMAIN df |->
             IF df[i].Abbreviation \in DOMAIN fallback_grid
             THEN fallback_grid[df[i].Abbreviation] ELSE NaN ]
    ELSE [ i \in DOMAIN df |-> df[i].GridPosition ]

\* (mutant: the pole goes to the last driver of the frame)
PoleSitterLast(df, fallback_grid) ==
    { df[i].Abbreviation : i \in { j \in DOMAIN df : j = Len(df) } }

\* lines 430-441: the driver of the first row with GridPosition == 1, as a set
\* (empty when no row has it)
PoleSitter(df, fallback_grid) ==
    LET gp == GridColumn(df, fallback_grid)
        pole_rows == { i \in DOMAIN df : gp[i] = 1 }
    IN  { df[i].Abbreviation : i \in { j \in pole_rows : \A k \in pole_rows : j <= k } }

\* (mutant: a sprint winner is credited with a win)
SprintRowCountsWin(rbd, row) ==
    LET code == row.Abbreviation
        d == IF code \in DOMAIN rbd THEN rbd[code]
             ELSE NewDriver(code, code, "", "", NaN)
    IN  IF row.__SPTS__ <= 0 THEN rbd
        ELSE Put(rbd, code, [d EXCEPT !.points = @ + row.__SPTS__,
                                      !.wins = IF row.__SPTS__ >= 3 THEN @ + 1 ELSE @])

\* lines 170-207: one sprint row; the rows of the sprint frames carry no name
\* and no team, so a driver first seen in a sprint is named by the code
SprintRow(rbd, row) ==
    LET code == row.Abbreviation
        d == IF code \in DOMAIN rbd THEN rbd[code]
             ELSE NewDriver(code, code, "", "", NaN)
    IN  IF row.__SPTS__ <= 0 THEN rbd
        ELSE Put(rbd, code,
                 [d EXCEPT !.full_name = IF Len(@) <= 3 THEN code ELSE @,
                           !.points = @ + row.__SPTS__])

RECURSIVE _apply_sprint_points(_, _)
\* lines 159-207
_apply_sprint_points(rbd, sres) ==
    IF sres = << >> THEN rbd
    ELSE _apply_sprint_points(SprintRow(rbd, Head(sres)), Tail(sres))

\* lines 548-567: the pole counts carried into the entries, pure pole sitters
\* included
MergePoles(rbd, counts, rounds) ==
    [ c \in DOMAIN rbd \cup DOMAIN counts |->
        IF c \notin DOMAIN counts THEN rbd[c]
        ELSE IF c \notin DOMAIN rbd
        THEN [NewDriver(c, c, "", "", NaN) EXCEPT !.poles = counts[c],
                                                  !.pole_rounds = rounds[c]]
        ELSE [rbd[c] EXCEPT !.poles = counts[c], !.pole_rounds = rounds[c]] ]

RECURSIVE SumSeq(_)
SumSeq(s) == IF s = << >> THEN 0 ELSE Head(s) + SumSeq(Tail(s))

\* line 575: the mean of the positions as the fraction sum / count, None as 0 / 0
Mean(positions) == [num |-> SumSeq(positions), den |-> Len(positions)]

\* lines 572-603
Finalised(rbd) ==
    [ c \in DOMAIN rbd |->
        [code |-> c,
         full_name |-> IF rbd[c].full_name = "" THEN c ELSE rbd[c].full_name,
         name |-> IF rbd[c].full_name = "" THEN c ELSE rbd[c].full_name,
         team |-> rbd[c].team,
         team_color |-> rbd[c].team_color,
         grid_position |-> rbd[c].grid_position,
         total_points |-> rbd[c].points,
         wins |-> rbd[c].wins,
         podiums |-> rbd[c].podiums,
         dnfs |-> rbd[c].dnfs,
         avg_finish |-> Mean(rbd[c].positions),
         poles |-> rbd[c].poles,
         pole_rounds |-> rbd[c].pole_rounds] ]

\* no season is being aggregated
SeasonRest ==
    /\ season = 2021
    /\ schedule = << >>
    /\ ev = 1
    /\ fetched = << >>
    /\ results_by_driver = EmptyDict
    /\ pole_counts = EmptyDict
    /\ pole_rounds = EmptyDict
    /\ out = EmptyDict
    /\ step = "rest"

\* sorted(...) of a set of round numbers (lines 283 and 612)
SortedList(S) ==
    CHOOSE q \in [1..Cardinality(S) -> S] :
        \A i, j \in 1..Cardinality(S) : i < j => q[i] < q[j]

\* set(...) of a list of round numbers (line 385)
SetOf(q) == { q[i] : i \in DOMAIN q }

\* lines 250-287: the list of a year that has been looked up before is returned
\* as it was stored (_SPRINT_ROUNDS_CACHE holds it as [rounds |-> the list]);
\* otherwise the rounds the schedule marks, sorted; a schedule that cannot be
\* read counts as one that marks nothing
_detect_sprint_rounds(memo, y, marks) ==
    IF memo[y] # None THEN memo[y].rounds ELSE SortedList(marks)

\* line 211: no year has been looked up, and no build holds a set
SprintsRest ==
    /\ _SPRINT_ROUNDS_CACHE = [y \in SeasonYears |-> None]
    /\ sprint_rounds = {}
    /\ sprint_events = {}

\* ---- cache_utils: the persisted JSON store ------------------------------
\* Python values, by type; a float is held in tenths (25.0 is 250).
PyNone == [t |-> "NoneType", n |-> 0, s |-> "", items |-> << >>]
PyInt(n) == [t |-> "int", n |-> n, s |-> "", items |-> << >>]
PyFloat(tenths) == [t |-> "float", n |-> tenths, s |-> "", items |-> << >>]
PyStr(s) == [t |-> "str", n |-> 0, s |-> s, items |-> << >>]
PyList(items) == [t |-> "list", n |-> 0, s |-> "", items |-> items]
PyDict(items) == [t |-> "dict", n |-> 0, s |-> "", items |-> items]

\* The values of a JSON text: null, a number literal without a fraction, a
\* number literal whole.frac, a string, an array, an object.
JNull == [j |-> "null", whole |-> 0, frac |-> 0, s |-> "", items |-> << >>]
JInt(n) == [j |-> "int", whole |-> n, frac |-> 0, s |-> "", items |-> << >>]
JFrac(w, f) == [j |-> "frac", whole |-> w, frac |-> f, s |-> "", items |-> << >>]
JString(s) == [j |-> "string", whole |-> 0, frac |-> 0, s |-> s, items |-> << >>]
JArray(items) == [j |-> "array", whole |-> 0, frac |-> 0, s |-> "", items |-> items]
JObject(items) == [j |-> "object", whole |-> 0, frac |-> 0, s |-> "", items |-> items]

\* (mutant: a float without fraction is written like an int, 25.0 as 25)
float_repr_short(tenths) ==
    IF tenths % 10 = 0 THEN JInt(tenths \div 10)
    ELSE JFrac(tenths \div 10, tenths % 10)

\* json.dumps of a float: float.__repr__, always with a fraction (25.0)
float_repr(tenths) == JFrac(tenths \div 10, tenths % 10)

RECURSIVE json_dumps(_)
\* line 40: json.dumps(payload, ensure_ascii=False); the keys of the payload
\* are all strings and are written as they are
json_dumps(v) ==
    CASE v.t = "NoneType" -> JNull
      [] v.t = "int" -> JInt(v.n)
      [] v.t = "float" -> float_repr(v.n)
      [] v.t = "str" -> JString(v.s)
      [] v.t = "list" -> JArray([i \in DOMAIN v.items |-> json_dumps(v.items[i])])
      [] v.t = "dict" -> JObject([k \in DOMAIN v.items |-> json_dumps(v.items[k])])

RECURSIVE json_loads(_)
\* line 32: json.loads; a number literal with a fraction is read as a float,
\* one without as an int, an array as a list, an object as a dict
json_loads(x) ==
    CASE x.j = "null" -> PyNone
      [] x.j = "int" -> PyInt(x.whole)
      [] x.j = "frac" -> PyFloat(10 * x.whole + x.frac)
      [] x.j = "string" -> PyStr(x.s)
      [] x.j = "array" -> PyList([i \in DOMAIN x.items |-> json_loads(x.items[i])])
      [] x.j = "object" -> PyDict([k \in DOMAIN x.items |-> json_loads(x.items[k])])

\* lines 588-603: one driver's summary as the Python dict of the payload
PySummary(d) ==
    PyDict([k \in {"code", "full_name", "name", "team", "team_color",
                   "grid_position", "total_points", "wins", "podiums", "dnfs",
                   "avg_finish", "poles", "pole_rounds"} |->
        CASE k = "code" -> PyStr(d.code)
          [] k = "full_name" -> PyStr(d.full_name)
          [] k = "name" -> PyStr(d.name)
          [] k = "team" -> PyStr(d.team)
          [] k = "team_color" -> PyStr(d.team_color)
          [] k = "grid_position" ->
                IF d.grid_position = NaN THEN PyNone ELSE PyInt(d.grid_position)
          [] k = "total_points" -> PyFloat(10 * d.total_points)
          [] k = "wins" -> PyInt(d.wins)
          [] k = "podiums" -> PyInt(d.podiums)
          [] k = "dnfs" -> PyInt(d.dnfs)
          [] k = "avg_finish" ->
                IF d.avg_finish.den = 0 THEN PyNone
                ELSE PyFloat((10 * d.avg_finish.num) \div d.avg_finish.den)
          [] k = "poles" -> PyInt(d.poles)
          [] k = "pole_rounds" ->
                PyList([i \in DOMAIN d.pole_rounds |-> PyInt(d.pole_rounds[i])])])

\* lines 604-612: the payload as a Python dict
PyPayload(version, y, drivers, sprints) ==
    PyDict([k \in {"schema_version", "season", "drivers", "sprint_rounds"} |->
        CASE k = "schema_version" -> PyInt(version)
          [] k = "season" -> PyInt(y)
          [] k = "drivers" -> PyDict([c \in DOMAIN drivers |-> PySummary(drivers[c])])
          [] k = "sprint_rounds" -> PyList([i \in DOMAIN sprints |-> PyInt(sprints[i])])])

\* Accumulators of a driver at the end of a season: without or with a grid
\* position, without points or with those of one or two races, with or
\* without a pole.
Accumulated(c) ==
    { [NewDriver(c, FullNameOf(c), TeamNameOf(c), TeamColorOf(c), g)
          EXCEPT !.points = SumSeq([i \in DOMAIN ps |-> points_map(ps[i])]),
                 !.positions = ps,
                 !.wins = Cardinality({ i \in DOMAIN ps : IsWin(ps[i]) }),
                 !.podiums = Cardinality({ i \in DOMAIN ps : IsPodium(ps[i]) }),
                 !.poles = Len(pr),
                 !.pole_rounds = pr] :
        g \in {NaN, 1}, ps \in { << >>, << 1 >>, << 1, 2 >> }, pr \in { << >>, << 1 >> } }

\* The drivers mappings the finalisation may produce for up to two drivers.
DriverMappings ==
    { Finalised(EmptyDict) }
    \cup { Finalised(Put(EmptyDict, "VER", a)) : a \in Accumulated("VER") }
    \cup { Finalised(Put(EmptyDict, "HAM", b)) : b \in Accumulated("HAM") }
    \cup { Finalised(Put(Put(EmptyDict, "VER", a), "HAM", b)) :
              a \in Accumulated("VER"), b \in Accumulated("HAM") }

\* The payloads handed to save_season.
Payloads ==
    { PyPayload(v, y, d, s) :
        v \in {InitialSchemaVersion, InitialSchemaVersion + 1},
        y \in Years,
        d \in DriverMappings,
        s \in { << >>, << 1 >> } }

\* nothing is being saved
StoreRest ==
    /\ saving = None
    /\ tmp_text = None
    /\ file_text = None
    /\ loaded = None
    /\ io = "rest"

AggregatorRest ==
    /\ ReconcilerRest
    /\ SeasonRest
    /\ StoreRest
    /\ SprintsRest

\* ---- the cache and build guard ------------------------------------------
CacheInit ==
    /\ SCHEMA_VERSION = InitialSchemaVersion
    /\ _MEM_SEASON = [y \in Years |-> None]
    /\ _BUILDING = {}
    /\ season_file = [y \in Years |-> None]
    /\ tmp_file = [y \in Years |-> None]
    /\ now = 0
    /\ calls = 0
    /\ events = 0
    /\ pc = [r \in Requests |-> "idle"]
    /\ year = [r \in Requests |-> CHOOSE y \in Years : TRUE]
    /\ refresh = [r \in Requests |-> FALSE]
    /\ entry = [r \in Requests |-> None]
    /\ cached = [r \in Requests |-> None]
    /\ payload = [r \in Requests |-> None]
    /\ response = [r \in Requests |-> NoResponse]
    /\ consulted = [r \in Requests |-> << >>]
    /\ sawBuild = [r \in Requests |-> FALSE]
    /\ memStale = [r \in Requests |-> FALSE]
    /\ scenarioD = [r \in Requests |-> FALSE]
    /\ before = [r \in Requests |-> None]

\* The service after start-up: nothing cached, no request running, and no round
\* being reconciled.
Init ==
    /\ CacheInit
    /\ AggregatorRest

\* A request arrives: load_season(y, response, refresh=rf).  With refresh the
\* memory tier, the _BUILDING test and the persisted tier are all skipped (lines
\* 363 and 370); without it the request begins with _mem_get, line 295:
\* entry = _MEM_SEASON.get(year), and `if not entry: return None`
Start(r, y, rf) ==
    /\ pc[r] = "idle"
    /\ calls < MaxCalls
    /\ calls' = calls + 1
    /\ year' = [year EXCEPT ![r] = y]
    /\ refresh' = [refresh EXCEPT ![r] = rf]
    /\ IF rf
       THEN /\ pc' = [pc EXCEPT ![r] = "schedule"]
            /\ consulted' = [consulted EXCEPT ![r] = << "rebuild" >>]
            /\ UNCHANGED entry
       ELSE /\ pc' = [pc EXCEPT ![r] =
                    IF _MEM_SEASON[y] = None THEN "guard" ELSE "mem_check"]
            /\ consulted' = [consulted EXCEPT ![r] = << "memory" >>]
            /\ entry' = [entry EXCEPT ![r] = _MEM_SEASON[y]]
    /\ sawBuild' = [sawBuild EXCEPT ![r] = ~rf /\ InFlight(y) # {}]
    /\ memStale' = [memStale EXCEPT ![r] =
            /\ ~rf
            /\ _MEM_SEASON[y] # None
            /\ now - _MEM_SEASON[y].ts > _MEM_TTL_SECONDS
            /\ InFlight(y) = {}
            /\ y \notin _BUILDING]
    /\ scenarioD' = [q \in Requests |->
            IF q = r
            THEN /\ ~rf
                 /\ \A o \in Requests : pc[o] = "idle"
                 /\ _MEM_SEASON[y] # None
                 /\ _MEM_SEASON[y].payload.schema_version # SCHEMA_VERSION
                 /\ season_file[y] # None
                 /\ season_file[y].schema_version # SCHEMA_VERSION
            ELSE IF year[q] = y THEN FALSE ELSE scenarioD[q]]
    /\ UNCHANGED << shared, events, cached, payload, response >>
    /\ before' = [q \in Requests |->
            IF q = r /\ \A o \in Requests : pc[o] = "idle"
            THEN [mem |-> _MEM_SEASON[y], file |-> season_file[y]]
            ELSE None]
    /\ UNCHANGED aggregator

\* _mem_get, lines 298-304, for an entry that was found, and the hit branch of
\* load_season, lines 365-368
MemGetCheck(r) ==
    /\ pc[r] = "mem_check"
    /\ LET e == entry[r]
           y == year[r]
       IN  IF Expired(e, now) \/ ~SchemaMatches(e.payload)
           THEN /\ _MEM_SEASON' = [_MEM_SEASON EXCEPT ![y] = None]
                /\ pc' = [pc EXCEPT ![r] = "guard"]
                /\ UNCHANGED << response, sawBuild >>
           ELSE /\ response' = [response EXCEPT ![r] =
                        [status |-> 200, cache |-> "memory", body |-> e.payload]]
                /\ pc' = [pc EXCEPT ![r] = "finally"]
                /\ sawBuild' = [sawBuild EXCEPT ![r] = FALSE]
                /\ UNCHANGED _MEM_SEASON
    /\ entry' = [entry EXCEPT ![r] = None]
    /\ UNCHANGED << SCHEMA_VERSION, _BUILDING, season_file, tmp_file, now, calls, events,
                    year, refresh, cached, payload, consulted, memStale,
                    scenarioD >>
    /\ before' = [before EXCEPT ![r] = IF pc'[r] \in {"guard", "disk_load", "schedule"} THEN @ ELSE None]
    /\ UNCHANGED aggregator

\* load_season, lines 370-373: the stampede guard
Guard(r) ==
    /\ pc[r] = "guard"
    /\ IF BuildingReply(year[r], refresh[r])
       THEN /\ response' = [response EXCEPT ![r] =
                    [status |-> 202, cache |-> "", body |-> BuildingBody(year[r])]]
            /\ pc' = [pc EXCEPT ![r] = "finally"]
            /\ sawBuild' = [sawBuild EXCEPT ![r] = FALSE]
       ELSE /\ pc' = [pc EXCEPT ![r] = "disk_load"]
            /\ UNCHANGED << response, sawBuild >>
    /\ UNCHANGED << shared, calls, events, year, refresh, entry, cached, payload, consulted,
                    memStale, scenarioD >>
    /\ before' = [before EXCEPT ![r] = IF pc'[r] \in {"guard", "disk_load", "schedule"} THEN @ ELSE None]
    /\ UNCHANGED aggregator

\* load_season, lines 375-377: cached = _load_from_cache(year) and the hit test
\* (after a miss `cached` is never read again)
DiskLoad(r) ==
    /\ pc[r] = "disk_load"
    /\ IF DiskHit(cache_load(year[r]))
       THEN /\ cached' = [cached EXCEPT ![r] = cache_load(year[r])]
            /\ pc' = [pc EXCEPT ![r] = "promote"]
            /\ consulted' = [consulted EXCEPT ![r] = Append(@, "persisted")]
       ELSE /\ cached' = [cached EXCEPT ![r] = None]
            /\ pc' = [pc EXCEPT ![r] = "schedule"]
            /\ consulted' = [consulted EXCEPT ![r] = @ \o << "persisted", "rebuild" >>]
    /\ UNCHANGED << shared, calls, events, year, refresh, entry, payload, response, sawBuild,
                    memStale, scenarioD >>
    /\ before' = [before EXCEPT ![r] = IF pc'[r] \in {"guard", "disk_load", "schedule"} THEN @ ELSE None]
    /\ UNCHANGED aggregator

\* (mutant: the timestamp is not taken from the clock)
_mem_put_epoch(y, p) == [_MEM_SEASON EXCEPT ![y] = [payload |-> p, ts |-> 0]]

\* _mem_put, line 307
_mem_put(y, p) == [_MEM_SEASON EXCEPT ![y] = [payload |-> p, ts |-> now]]

\* load_season, lines 378-381: promote the persisted payload into memory
Promote(r) ==
    /\ pc[r] = "promote"
    /\ _MEM_SEASON' = _mem_put(year[r], cached[r])
    /\ response' = [response EXCEPT ![r] =
            [status |-> 200, cache |-> "disk", body |-> cached[r]]]
    /\ pc' = [pc EXCEPT ![r] = "finally"]
    /\ sawBuild' = [sawBuild EXCEPT ![r] = FALSE]
    /\ UNCHANGED << SCHEMA_VERSION, _BUILDING, season_file, tmp_file, now, calls, events,
                    year, refresh, entry, cached, payload, consulted,
                    memStale, scenarioD >>
    /\ UNCHANGED << before, aggregator >>

\* the build of request r ends (its payload is stored, or it raises): no
\* request of that year has a build still in flight from its arrival, and r
\* itself has its reply
BuildEnds(r) ==
    [q \in Requests |-> IF year[q] = year[r] THEN FALSE ELSE sawBuild[q]]

\* (mutant: the failure is reported as a success without content)
RaiseNoContent(r) ==
    /\ response' = [response EXCEPT ![r] =
            [status |-> 204, cache |-> "", body |-> ErrorBody]]
    /\ pc' = [pc EXCEPT ![r] = "finally"]

\* the except clause, lines 623-624
Raise(r) ==
    /\ response' = [response EXCEPT ![r] =
            [status |-> 500, cache |-> "", body |-> ErrorBody]]
    /\ pc' = [pc EXCEPT ![r] = "finally"]

\* load_season, lines 383-390: fastf1.get_event_schedule succeeds or raises;
\* after it (and the sprint-round detection, which touches nothing shared
\* here) the year is added to _BUILDING
Schedule(r) ==
    /\ pc[r] = "schedule"
    /\ \E ok \in BOOLEAN :
          IF ok THEN /\ _BUILDING' = _BUILDING \cup {year[r]}
                     /\ pc' = [pc EXCEPT ![r] = "build"]
                     /\ UNCHANGED << response, sawBuild >>
                ELSE /\ Raise(r)
                     /\ sawBuild' = [sawBuild EXCEPT ![r] = FALSE]
                     /\ UNCHANGED _BUILDING
    /\ UNCHANGED << SCHEMA_VERSION, _MEM_SEASON, season_file, tmp_file, now, calls, events,
                    year, refresh, entry, cached, payload, consulted,
                    memStale, scenarioD >>
    /\ before' = [before EXCEPT ![r] = IF pc'[r] = "finally" THEN @ ELSE None]
    /\ UNCHANGED aggregator

\* load_season, lines 392-616: the round loop, the finalisation and the
\* payload stamped with SCHEMA_VERSION, computed from whatever the providers
\* return at the time (k), then save_season up to tmp.write_text (cache_utils
\* lines 38-40); an error escaping the loop raises
Build(r) ==
    /\ pc[r] = "build"
    /\ \E ok \in BOOLEAN, k \in 0..MaxData :
          IF ok THEN /\ payload' = [payload EXCEPT ![r] =
                            SeasonPayload(year[r], DriversOf(k))]
                     /\ tmp_file' = [tmp_file EXCEPT ![year[r]] =
                            SeasonPayload(year[r], DriversOf(k))]
                     /\ pc' = [pc EXCEPT ![r] = "save_replace"]
                     /\ UNCHANGED << response, sawBuild >>
                ELSE /\ Raise(r)
                     /\ sawBuild' = BuildEnds(r)
                     /\ UNCHANGED << payload, tmp_file >>
    /\ UNCHANGED << SCHEMA_VERSION, _MEM_SEASON, _BUILDING, season_file, now, calls, events,
                    year, refresh, entry, cached, consulted, memStale, scenarioD >>
    /\ UNCHANGED << before, aggregator >>

\* save_season, line 41: tmp.replace(p); FileNotFoundError when another
\* save_season has already moved the shared .tmp file away
SaveReplace(r) ==
    /\ pc[r] = "save_replace"
    /\ IF tmp_file[year[r]] = None
       THEN /\ Raise(r)
            /\ sawBuild' = BuildEnds(r)
            /\ UNCHANGED << season_file, tmp_file >>
       ELSE /\ season_file' = [season_file EXCEPT ![year[r]] = tmp_file[year[r]]]
            /\ tmp_file' = [tmp_file EXCEPT ![year[r]] = None]
            /\ pc' = [pc EXCEPT ![r] = "mem_put"]
            /\ UNCHANGED << response, sawBuild >>
    /\ UNCHANGED << SCHEMA_VERSION, _MEM_SEASON, _BUILDING, now, calls, events,
                    year, refresh, entry, cached, payload, consulted,
                    memStale, scenarioD >>
    /\ UNCHANGED << before, aggregator >>

\* load_season, lines 617-621: _mem_put(year, payload) and the 'built' reply
MemPut(r) ==
    /\ pc[r] = "mem_put"
    /\ _MEM_SEASON' = _mem_put(year[r], payload[r])
    /\ response' = [response EXCEPT ![r] =
            [status |-> 200, cache |-> "built", body |-> payload[r]]]
    /\ pc' = [pc EXCEPT ![r] = "finally"]
    /\ sawBuild' = BuildEnds(r)
    /\ UNCHANGED << SCHEMA_VERSION, _BUILDING, season_file, tmp_file, now, calls, events,
                    year, refresh, entry, cached, payload, consulted,
                    memStale, scenarioD >>
    /\ UNCHANGED << before, aggregator >>

\* (mutant: the year is discarded only on the way out of a success)
FinallyAfterSuccess(r) ==
    /\ pc[r] = "finally"
    /\ _BUILDING' = IF response[r].status = 500 THEN _BUILDING
                    ELSE _BUILDING \ {year[r]}
    /\ pc' = [pc EXCEPT ![r] = "idle"]
    /\ response' = [response EXCEPT ![r] = NoResponse]
    /\ cached' = [cached EXCEPT ![r] = None]
    /\ payload' = [payload EXCEPT ![r] = None]
    /\ consulted' = [consulted EXCEPT ![r] = << >>]
    /\ memStale' = [memStale EXCEPT ![r] = FALSE]
    /\ scenarioD' = [scenarioD EXCEPT ![r] = FALSE]
    /\ refresh' = [refresh EXCEPT ![r] = FALSE]
    /\ before' = [before EXCEPT ![r] = None]
    /\ UNCHANGED << SCHEMA_VERSION, _MEM_SEASON, season_file, tmp_file, now, calls, events,
                    year, entry, sawBuild >>
    /\ UNCHANGED aggregator

\* load_season, lines 625-626: finally: _BUILDING.discard(year), on every
\* way out of the function; then the reply goes to the caller
Finally(r) ==
    /\ pc[r] = "finally"
    /\ _BUILDING' = _BUILDING \ {year[r]}
    /\ pc' = [pc EXCEPT ![r] = "idle"]
    /\ response' = [response EXCEPT ![r] = NoResponse]
    /\ cached' = [cached EXCEPT ![r] = None]
    /\ payload' = [payload EXCEPT ![r] = None]
    /\ consulted' = [consulted EXCEPT ![r] = << >>]
    /\ memStale' = [memStale EXCEPT ![r] = FALSE]
    /\ scenarioD' = [scenarioD EXCEPT ![r] = FALSE]
    /\ refresh' = [refresh EXCEPT ![r] = FALSE]
    /\ before' = [before EXCEPT ![r] = None]
    /\ UNCHANGED << SCHEMA_VERSION, _MEM_SEASON, season_file, tmp_file, now, calls, events,
                    year, entry, sawBuild >>
    /\ UNCHANGED aggregator

\* time passes; only ages are ever compared (line 298), so the clock is left
\* alone until some timestamp has been taken
Tick ==
    /\ now + TickSeconds <= MaxTime
    /\ \/ \E y \in Years : _MEM_SEASON[y] # None
       \/ \E r \in Requests : entry[r] # None
    /\ events < MaxEvents
    /\ events' = events + 1
    /\ now' = now + TickSeconds
    /\ UNCHANGED << SCHEMA_VERSION, _MEM_SEASON, _BUILDING, season_file, tmp_file,
                    calls, pc, year, refresh, entry, cached, payload, response,
                    consulted, sawBuild, memStale, scenarioD >>
    /\ UNCHANGED << before, aggregator >>

\* A release changes the output structure and increments SCHEMA_VERSION
\* (compare.py line 18).  It happens while no request is running: either the
\* process is restarted (memory tier and _BUILDING start empty, the files
\* stay) or the constant is replaced in the running process.  Versions are only
\* compared for equality (lines 301 and 377), so a release that finds no stored
\* payload at all is not told apart from none.
SchemaBump(restart) ==
    /\ \A r \in Requests : pc[r] = "idle"
    /\ SCHEMA_VERSION < MaxSchemaVersion
    /\ \E y \in Years :
          _MEM_SEASON[y] # None \/ season_file[y] # None \/ tmp_file[y] # None
    /\ events < MaxEvents
    /\ events' = events + 1
    /\ SCHEMA_VERSION' = SCHEMA_VERSION + 1
    /\ IF restart
       THEN /\ _MEM_SEASON' = [y \in Years |-> None]
            /\ _BUILDING' = {}
       ELSE UNCHANGED << _MEM_SEASON, _BUILDING >>
    /\ UNCHANGED << season_file, tmp_file, now, calls, pc, year, refresh, entry,
                    cached, payload, response, consulted, sawBuild, memStale, scenarioD >>
    /\ UNCHANGED << before, aggregator >>

Next ==
    \/ \E r \in Requests, y \in Years, rf \in BOOLEAN : Start(r, y, rf)
    \/ \E r \in Requests : MemGetCheck(r)
    \/ \E r \in Requests : Guard(r)
    \/ \E r \in Requests : DiskLoad(r)
    \/ \E r \in Requests : Promote(r)
    \/ \E r \in Requests : Schedule(r)
    \/ \E r \in Requests : Build(r)
    \/ \E r \in Requests : SaveReplace(r)
    \/ \E r \in Requests : MemPut(r)
    \/ \E r \in Requests : Finally(r)
    \/ Tick
    \/ \E restart \in BOOLEAN : SchemaBump(restart)

Spec == Init /\ [][Next]_vars

TypeOK ==
    /\ SCHEMA_VERSION \in InitialSchemaVersion..MaxSchemaVersion
    /\ _BUILDING \subseteq Years
    /\ now \in 0..MaxTime
    /\ calls \in 0..MaxCalls
    /\ events \in 0..MaxEvents
    /\ pc \in [Requests -> {"idle", "mem_check", "guard", "disk_load", "promote",
                            "schedule", "build", "save_replace", "mem_put",
                            "finally"}]

\* ---- the reconciler on one round ----------------------------------------
\* One round with every combination of provider results.
ReconcilerInit ==
    /\ CacheInit
    /\ SeasonRest
    /\ StoreRest
    /\ SprintsRest
    /\ f1 \in PrimaryResults
    /\ er \in SecondaryResults
    /\ laps \in LapResults
    /\ result = Pending

\* load_results_strict(year, round_number) runs
Reconcile ==
    /\ result = Pending
    /\ result' = load_results_strict(f1, er, laps)
    /\ UNCHANGED << f1, er, laps >>
    /\ UNCHANGED << cache, folding, store, sprint_state >>

ReconcilerNext == Reconcile

SpecReconciler == ReconcilerInit /\ [][ReconcilerNext]_vars

\* ---- the enrichment of one frame from the other -------------------------
\* What the secondary provider calls the team of a driver.
ConstructorOf(c) ==
    CASE c = "VER" -> "Red Bull" [] c = "HAM" -> "Mercedes AMG" [] OTHER -> ""

\* Rows of the i-th driver whose status, grid position and team name are each
\* there or missing.
DescribedRows(i, status, grid, team) ==
    { [Abbreviation |-> Codes[i], Position |-> i, Points |-> points_map(i),
       Status |-> s, GridPosition |-> g, TeamName |-> t] :
        s \in {"", status}, g \in {NaN, grid}, t \in {"", team} }

\* The primary says "Finished", the grid position and its own team name.
PrimaryDescribed ==
    {NoFrame} \cup
    { Frame(rs) : rs \in Frames([i \in 1..Len(Codes) |->
                        DescribedRows(i, "Finished", i, TeamNameOf(Codes[i]))]) }

\* The secondary says "+1 Lap", a grid position two places back and the
\* constructor's name.
SecondaryDescribed ==
    {NoFrame} \cup
    { Frame(rs) : rs \in Frames([i \in 1..Len(Codes) |->
                        DescribedRows(i, "+1 Lap", i + 2, ConstructorOf(Codes[i]))]) }

EnrichInit ==
    /\ CacheInit
    /\ SeasonRest
    /\ StoreRest
    /\ SprintsRest
    /\ f1 \in PrimaryDescribed
    /\ er \in SecondaryDescribed
    /\ laps = NoFrame
    /\ result = Pending

\* line 193: enriched = _enrich_from_source(f1, er)
EnrichPrimary ==
    /\ result = Pending
    /\ f1.state = "frame"
    /\ result' = Returns("fastf1", _enrich_from_source(f1.rows, er))
    /\ UNCHANGED << f1, er, laps >>
    /\ UNCHANGED << cache, folding, store, sprint_state >>

\* line 200: enriched = _enrich_from_source(er, f1)
EnrichSecondary ==
    /\ result = Pending
    /\ er.state = "frame"
    /\ result' = Returns("ergast", _enrich_from_source(er.rows, f1))
    /\ UNCHANGED << f1, er, laps >>
    /\ UNCHANGED << cache, folding, store, sprint_state >>

EnrichNext ==
    \/ EnrichPrimary
    \/ EnrichSecondary

SpecEnrich == EnrichInit /\ [][EnrichNext]_vars

\* ---- one round from the providers to the accumulators -------------------
\* Rows of the primary with every status text, with or without points.
PrimaryWithStatus(i) ==
    { [Abbreviation |-> Codes[i], Position |-> i, Points |-> q, Status |-> s] :
        q \in {NaN, points_map(i)}, s \in StatusTexts }

\* Rows of the secondary, for a driver who finished or retired.
SecondaryWithStatus(i) ==
    { [Abbreviation |-> Codes[i], Position |-> i, Points |-> points_map(i) + 1,
       Status |-> s] : s \in {"Finished", "Retired"} }

\* compare.py lines 416-424: the columns the loop needs, Points with 0 for
\* what is missing
Normalised(df) ==
    [ i \in DOMAIN df |->
        [Abbreviation |-> df[i].Abbreviation,
         Position |-> df[i].Position,
         Points |-> IF df[i].Points = NaN THEN 0 ELSE df[i].Points,
         GridPosition |-> IF "GridPosition" \in DOMAIN df[i]
                          THEN df[i].GridPosition ELSE NaN,
         DNF |-> df[i].DNF] ]

\* The first round of a season, before load_results_strict is called.
RoundInit ==
    /\ CacheInit
    /\ SeasonRest
    /\ StoreRest
    /\ SprintsRest
    /\ f1 \in {NoFrame} \cup
              { Frame(rs) : rs \in Frames([i \in 1..Len(Codes) |-> PrimaryWithStatus(i)]) }
    /\ er \in {Raises, NoFrame} \cup
              { Frame(rs) : rs \in Frames([i \in 1..Len(Codes) |-> SecondaryWithStatus(i)]) }
    /\ laps = NoFrame
    /\ result = Pending

\* compare.py lines 402-406: load_results_strict(year, rnd)
ReconcileRound ==
    /\ result = Pending
    /\ result' = load_results_strict(f1, er, laps)
    /\ UNCHANGED << f1, er, laps >>
    /\ UNCHANGED << cache, folding, store, sprint_state >>

\* compare.py lines 407-508: the rows of the round folded into the empty
\* accumulators, in a round without qualifying data
FoldRound ==
    /\ result.state = "ok"
    /\ result.df # << >>
    /\ results_by_driver = EmptyDict
    /\ results_by_driver' = AggregateRows(EmptyDict, Normalised(result.df), EmptyDict)
    /\ UNCHANGED << season, schedule, ev, fetched, pole_counts, pole_rounds, out, step >>
    /\ UNCHANGED << cache, reconciler, store, sprint_state >>

RoundNext ==
    \/ ReconcileRound
    \/ FoldRound

SpecRound == RoundInit /\ [][RoundNext]_vars

\* ---- the aggregation of one season --------------------------------------
\* lines 383-394: the schedule has been fetched and the accumulators are empty;
\* the schedule marks no sprint weekend, so that the detection of line 385 has
\* stored and returned an empty list
SeasonInit ==
    /\ CacheInit
    /\ ReconcilerRest
    /\ StoreRest
    /\ season \in SeasonYears
    /\ schedule \in Schedules
    /\ ev = 1
    /\ fetched = << >>
    /\ results_by_driver = EmptyDict
    /\ pole_counts = EmptyDict
    /\ pole_rounds = EmptyDict
    /\ out = EmptyDict
    /\ step = "rounds"
    /\ sprint_events = {}
    /\ _SPRINT_ROUNDS_CACHE =
          [y \in SeasonYears |-> IF y = season THEN [rounds |-> << >>] ELSE None]
    /\ sprint_rounds = {}

\* lines 397-399: an event without a positive round number is passed over
RoundWithoutNumber ==
    /\ step = "rounds"
    /\ ev <= Len(schedule)
    /\ schedule[ev] <= 0
    /\ ev' = ev + 1
    /\ UNCHANGED << season, schedule, fetched, results_by_driver, pole_counts,
                    pole_rounds, out, step >>
    /\ UNCHANGED << cache, reconciler, store, sprint_state >>

\* (mutant: a round without rows drops what the earlier rounds have added)
RoundWithoutRowsStartsOver ==
    /\ step = "rounds"
    /\ ev <= Len(schedule)
    /\ schedule[ev] > 0
    /\ \E res \in WithoutRows :
          fetched' = Append(fetched, [rnd |-> schedule[ev], res |-> res,
                                      fallback_grid |-> EmptyDict,
                                      backends |-> << >>, sprint |-> << >>])
    /\ ev' = ev + 1
    /\ results_by_driver' = EmptyDict
    /\ UNCHANGED << season, schedule, pole_counts, pole_rounds, out, step >>
    /\ UNCHANGED << cache, reconciler, store, sprint_state >>

\* lines 402-408: load_results_strict raises or returns an empty frame, and the
\* loop continues with the next event
RoundWithoutRows ==
    /\ step = "rounds"
    /\ ev <= Len(schedule)
    /\ schedule[ev] > 0
    /\ \E res \in WithoutRows :
          fetched' = Append(fetched, [rnd |-> schedule[ev], res |-> res,
                                      fallback_grid |-> EmptyDict,
                                      backends |-> << >>, sprint |-> << >>])
    /\ ev' = ev + 1
    /\ UNCHANGED << season, schedule, results_by_driver, pole_counts, pole_rounds,
                    out, step >>
    /\ UNCHANGED << cache, reconciler, store, sprint_state >>

\* (mutant: a round the detection has not listed is never added)
lazy_probe_idle(rounds, rnd, sprint_df) == rounds

\* lines 520-526: a round the detection has not listed joins the set when its
\* sprint results have rows
lazy_probe(rounds, rnd, sprint_df) ==
    IF rnd \in rounds \/ sprint_df = << >> THEN rounds ELSE rounds \cup {rnd}

\* lines 402-545: a round with rows: the pole, the rows of the race, then the
\* sprint results of the round, their points and the set of the sprint rounds;
\* the race frame is one of frames, the answers of the sprint backends one of
\* sprint_answers
RoundWithRowsFrom(frames, sprint_answers) ==
    /\ step = "rounds"
    /\ ev <= Len(schedule)
    /\ schedule[ev] > 0
    /\ \E df \in frames :
       \E fallback_grid \in QualifyingMaps(df) :
       \E backends \in sprint_answers :
          LET rnd == schedule[ev]
              pole == PoleSitter(df, fallback_grid)
              sres == _load_sprint_results(season, backends)
          IN  /\ fetched' = Append(fetched,
                    [rnd |-> rnd, res |-> Returns("fastf1", df),
                     fallback_grid |-> fallback_grid,
                     backends |-> backends, sprint |-> sres])
              /\ pole_counts' =
                    [ c \in DOMAIN pole_counts \cup pole |->
                        (IF c \in DOMAIN pole_counts THEN pole_counts[c] ELSE 0)
                        + (IF c \in pole THEN 1 ELSE 0) ]
              /\ pole_rounds' =
                    [ c \in DOMAIN pole_rounds \cup pole |->
                        (IF c \in DOMAIN pole_rounds THEN pole_rounds[c] ELSE << >>)
                        \o (IF c \in pole THEN << rnd >> ELSE << >>) ]
              /\ results_by_driver' =
                    _apply_sprint_points(
                        AggregateRows(results_by_driver, df, fallback_grid), sres)
              /\ sprint_rounds' = lazy_probe(sprint_rounds, rnd, sres)
    /\ ev' = ev + 1
    /\ UNCHANGED << season, schedule, out, step >>
    /\ UNCHANGED << _SPRINT_ROUNDS_CACHE, sprint_events >>
    /\ UNCHANGED << cache, reconciler, store >>

\* a round with rows, over the race frames and the sprint answers of the season
RoundWithRows == RoundWithRowsFrom(RaceFrames, SprintResults)

\* lines 547-603: after the last event, the poles are merged in and the drivers
\* mapping of the payload is built
Finalise ==
    /\ step = "rounds"
    /\ ev > Len(schedule)
    /\ results_by_driver' = MergePoles(results_by_driver, pole_counts, pole_rounds)
    /\ out' = Finalised(results_by_driver')
    /\ step' = "done"
    /\ UNCHANGED << season, schedule, ev, fetched, pole_counts, pole_rounds >>
    /\ UNCHANGED << cache, reconciler, store, sprint_state >>

SeasonNext ==
    \/ RoundWithoutNumber
    \/ RoundWithoutRows
    \/ RoundWithRows
    \/ Finalise

SpecSeason == SeasonInit /\ [][SeasonNext]_vars

\* ---- the sprint rounds over the builds of one process -------------------
\* The process is started and builds the season again and again, the upstream
\* data being what it is at the time of each build.

\* what the schedule can mark as sprint weekends: nothing, or one of its events
SprintMarks(s) == { {} } \cup { {s[i]} : i \in DOMAIN s }

\* the answers of the sprint backends: those of SprintResults, and the first
\* backend answering with a classification without positions and without points
SprintProbes ==
    SprintResults
    \cup { << Frame(<< [Abbreviation |-> "VER", Position |-> NaN, Points |-> 0] >>),
              NoFrame >> }

\* the race frame of a round with rows: VER wins from pole
SprintRaceFrames ==
    { << [Abbreviation |-> "VER", Position |-> 1, Points |-> points_map(1),
          GridPosition |-> 1, DNF |-> FALSE] >> }

\* line 211 and the module being imported: nothing is stored for any year
SprintRoundsInit ==
    /\ CacheInit
    /\ ReconcilerRest
    /\ SeasonRest
    /\ StoreRest
    /\ SprintsRest

\* lines 383-394: a build starts, in a new process or after an earlier build:
\* the schedule is fetched, the sprint rounds are detected or taken from
\* _SPRINT_ROUNDS_CACHE, and the accumulators are empty
StartBuild ==
    /\ step \in {"rest", "done"}
    /\ \E s \in Schedules :
       \E marks \in SprintMarks(s) :
          LET rounds == _detect_sprint_rounds(_SPRINT_ROUNDS_CACHE, season, marks)
          IN  /\ schedule' = s
              /\ sprint_events' = marks
              /\ _SPRINT_ROUNDS_CACHE' =
                    [_SPRINT_ROUNDS_CACHE EXCEPT ![season] = [rounds |-> rounds]]
              /\ sprint_rounds' = SetOf(rounds)
    /\ ev' = 1
    /\ fetched' = << >>
    /\ results_by_driver' = EmptyDict
    /\ pole_counts' = EmptyDict
    /\ pole_rounds' = EmptyDict
    /\ out' = EmptyDict
    /\ step' = "rounds"
    /\ UNCHANGED season
    /\ UNCHANGED << cache, reconciler, store >>

SprintRoundsNext ==
    \/ StartBuild
    \/ RoundWithoutNumber
    \/ RoundWithoutRows
    \/ RoundWithRowsFrom(SprintRaceFrames, SprintProbes)
    \/ Finalise

SpecSprintRounds == SprintRoundsInit /\ [][SprintRoundsNext]_vars

\* ---- saving and loading one season file ---------------------------------
\* save_season(router_file, year, payload) is called on an empty cache directory
StoreInit ==
    /\ CacheInit
    /\ ReconcilerRest
    /\ SeasonRest
    /\ SprintsRest
    /\ saving \in Payloads
    /\ tmp_text = None
    /\ file_text = None
    /\ loaded = None
    /\ io = "save"

\* cache_utils line 40: tmp.write_text(json.dumps(payload, ensure_ascii=False))
SaveSeasonWrite ==
    /\ io = "save"
    /\ tmp_text' = json_dumps(saving)
    /\ io' = "written"
    /\ UNCHANGED << saving, file_text, loaded >>
    /\ UNCHANGED << cache, reconciler, folding, sprint_state >>

\* cache_utils line 41: tmp.replace(p)
SaveSeasonReplace ==
    /\ io = "written"
    /\ file_text' = tmp_text
    /\ tmp_text' = None
    /\ io' = "saved"
    /\ UNCHANGED << saving, loaded >>
    /\ UNCHANGED << cache, reconciler, folding, sprint_state >>

\* cache_utils lines 28-35: load_season(router_file, year), before the save
\* (the file does not exist) or after it
LoadSeason ==
    /\ io \in {"save", "saved"}
    /\ loaded' = IF file_text = None THEN None ELSE json_loads(file_text)
    /\ io' = IF io = "saved" THEN "loaded" ELSE io
    /\ UNCHANGED << saving, tmp_text, file_text >>
    /\ UNCHANGED << cache, reconciler, folding, sprint_state >>

StoreNext ==
    \/ SaveSeasonWrite
    \/ SaveSeasonReplace
    \/ LoadSeason

SpecStore == StoreInit /\ [][StoreNext]_vars

\* ---- claims -------------------------------------------------------------

\* the persisted-tier hit test of load_season, lines 376-377, written out
ValidPersisted(c) ==
    /\ c # None
    /\ c.schema_version = SCHEMA_VERSION
    /\ DOMAIN c.drivers # {}

\* C1: for every year, at most one invocation of load_season (refresh or not)
\* is executing the season build at any moment.
C1_AtMostOneBuildPerYear ==
    \A y \in Years : Cardinality(InFlight(y)) <= 1

\* C2: of two concurrent load_season(Y, refresh=False) requests that found Y
\* cold (memory miss, Y not in _BUILDING, persisted miss), only one runs the
\* build: the other cannot pass the _BUILDING test before the first inserts.
C2_OneBuildForConcurrentColdRequests ==
    \A r1, r2 \in Requests :
        ( /\ r1 # r2
          /\ year[r1] = year[r2]
          /\ ~refresh[r1] /\ ~refresh[r2]
          /\ consulted[r1] = << "memory", "persisted", "rebuild" >>
          /\ consulted[r2] = << "memory", "persisted", "rebuild" >> )
        => ~(pc[r1] \in InFlightRegion /\ pc[r2] \in InFlightRegion)

\* C3: a load_season(Y, refresh=False) request that arrives while a build for
\* Y is in flight does not start a second build as long as that build is in
\* flight, whatever other requests have returned in the meantime.
C3_NoSecondBuildWhileInFlight ==
    \A r \in Requests :
        (~refresh[r] /\ sawBuild[r]) => pc[r] \notin BuildRegion

\* C4: a non-refresh request that missed the memory tier and finds its year
\* in _BUILDING gets the reply {season, status: 'building'} with status 202 in
\* that very step, having read no persisted entry, started no build and left
\* the memory tier and the files as they were.
C4_BuildingReplyImmediate ==
    [][ \A r \in Requests :
          ( /\ pc[r] = "guard"
            /\ pc'[r] # "guard"
            /\ ~refresh[r]
            /\ year[r] \in _BUILDING )
          => /\ pc'[r] = "finally"
             /\ response'[r] = [status |-> 202, cache |-> "",
                                body |-> [season |-> year[r], status |-> "building"]]
             /\ consulted'[r] = << "memory" >>
             /\ _MEM_SEASON' = _MEM_SEASON
             /\ season_file' = season_file
             /\ tmp_file' = tmp_file ]_vars

C4_Witness ==
    \E r \in Requests :
        /\ pc[r] = "finally"
        /\ response[r].status = 202
        /\ response[r].body = [season |-> year[r], status |-> "building"]

\* C5: a reply comes from the memory tier only out of _mem_get, only for an
\* entry whose schema_version is the current SCHEMA_VERSION and whose age is
\* within _MEM_TTL_SECONDS, and without a build; an entry that fails either
\* test leaves the memory tier in that step and is not returned.
C5_MemoryServesOnlyFreshCurrentEntries ==
    [][ \A r \in Requests :
          /\ ( response'[r].cache = "memory" /\ response[r].cache # "memory" )
             => /\ pc[r] = "mem_check"
                /\ entry[r] # None
                /\ entry[r].payload.schema_version = SCHEMA_VERSION
                /\ now - entry[r].ts <= _MEM_TTL_SECONDS
                /\ response'[r].body = entry[r].payload
                /\ consulted'[r] = << "memory" >>
          /\ ( /\ pc[r] = "mem_check"
               /\ pc'[r] # "mem_check"
               /\ entry[r] # None
               /\ \/ entry[r].payload.schema_version # SCHEMA_VERSION
                  \/ now - entry[r].ts > _MEM_TTL_SECONDS )
             => /\ _MEM_SEASON'[year[r]] = None
                /\ response'[r] = NoResponse
                /\ pc'[r] = "guard" ]_vars

C5_Witness ==
    \E r \in Requests :
        /\ pc[r] = "finally"
        /\ response[r].cache = "memory"
        /\ response[r].body.schema_version = SCHEMA_VERSION

\* C6 as stated: a non-refresh request that finds the memory entry past its
\* TTL, no build being in flight, rebuilds; it is not served from a tier that
\* holds a payload built before the expiry.
C6_StaleEntryForcesRebuild ==
    \A r \in Requests :
        memStale[r] => response[r].cache \notin {"memory", "disk"}

\* C6 amended: a non-refresh request that finds the memory entry past its
\* TTL, no build being in flight, is never served from the memory tier; it
\* falls through to the persisted tier, whose payload it is served (tier
\* 'disk') exactly when that payload carries the current schema version and a
\* non-empty drivers mapping, and it rebuilds only when the persisted tier has
\* no such payload.
C6_StaleEntryFallsThroughToDisk ==
    /\ [](\A r \in Requests :
            memStale[r] =>
                /\ response[r].cache # "memory"
                /\ response[r].cache = "disk"
                   => /\ ValidPersisted(response[r].body)
                      /\ consulted[r] = << "memory", "persisted" >>)
    /\ [][ \A r \in Requests :
             ( memStale[r] /\ pc[r] = "disk_load" /\ pc'[r] # "disk_load" )
             => IF ValidPersisted(season_file[year[r]])
                THEN pc'[r] = "promote" /\ cached'[r] = season_file[year[r]]
                ELSE pc'[r] = "schedule" ]_vars

C6_Witness ==
    \E r \in Requests :
        /\ memStale[r]
        /\ pc[r] = "finally"
        /\ response[r].cache = "disk"

\* C7: every SeasonPayload returned by load_season, from whichever tier,
\* carries the SCHEMA_VERSION current at the time of the request; a persisted
\* entry of another version is a miss that leads to the build, and a file
\* only ever changes by being replaced with a payload written by save_season.
C7_ReturnedPayloadHasCurrentSchema ==
    /\ [](\A r \in Requests :
            response[r].cache \in {"memory", "disk", "built"}
            => response[r].body.schema_version = SCHEMA_VERSION)
    /\ [][ /\ \A r \in Requests :
                ( /\ pc[r] = "disk_load"
                  /\ pc'[r] # "disk_load"
                  /\ season_file[year[r]] # None
                  /\ season_file[year[r]].schema_version # SCHEMA_VERSION )
                => /\ pc'[r] = "schedule"
                   /\ season_file' = season_file
                   /\ _MEM_SEASON' = _MEM_SEASON
           /\ \A y \in Years :
                season_file'[y] # season_file[y]
                => /\ \E r \in Requests :
                         pc[r] = "save_replace" /\ year[r] = y /\ pc'[r] = "mem_put"
                   /\ season_file'[y] = tmp_file[y]
                   /\ season_file'[y].schema_version = SCHEMA_VERSION ]_vars

C7_Witness ==
    \E r \in Requests :
        /\ ~refresh[r]
        /\ pc[r] = "schedule"
        /\ season_file[year[r]] # None
        /\ season_file[year[r]].schema_version # SCHEMA_VERSION
        /\ DOMAIN season_file[year[r]].drivers # {}

\* C8: a non-refresh request that starts, with no other request running, when
\* the memory entry and the persisted entry both carry an old schema version is
\* served from neither tier and gets no 'building' reply: it goes through
\* memory, persisted tier and rebuild, and when the build succeeds both tiers
\* hold exactly the newly built payload, stamped with the new version.
C8_SchemaBumpRebuildsBothTiers ==
    \A r \in Requests :
        scenarioD[r] =>
            /\ pc[r] # "promote"
            /\ response[r].cache \notin {"memory", "disk"}
            /\ response[r].status # 202
            /\ pc[r] = "finally"
               => consulted[r] = << "memory", "persisted", "rebuild" >>
            /\ response[r].cache = "built"
               => /\ response[r].body.schema_version = SCHEMA_VERSION
                  /\ _MEM_SEASON[year[r]] # None
                  /\ _MEM_SEASON[year[r]].payload = response[r].body
                  /\ season_file[year[r]] = response[r].body

C8_Witness ==
    \E r \in Requests :
        /\ scenarioD[r]
        /\ response[r].cache = "built"

C10_TiersUpdatedTogether ==
    \A r \in Requests :
        (pc[r] = "mem_put" /\ season_file[year[r]] = payload[r])
        => /\ _MEM_SEASON[year[r]] # None
           /\ _MEM_SEASON[year[r]].payload = payload[r]

\* ---- claims on the reconciler (SpecReconciler) --------------------------

\* the positive-points test of lines 184-185, written out
PositivePoints(x) == x.state = "frame" /\ SumPoints(x.rows) > 0

\* the test for a numeric position of lines 187-188, written out
NumericPosition(x) ==
    x.state = "frame" /\ \E i \in DOMAIN x.rows : x.rows[i].Position # NaN

\* the secondary provider returned a frame (er is not None at line 205)
Available(x) == x.state = "frame"

\* the classic top-10 points of lines 237-238, by position
Top10 == << 25, 18, 15, 12, 10, 8, 6, 4, 2, 1 >>

\* C15: when the primary result has strictly positive total points, the
\* reconciler returns it tagged 'fastf1': the same drivers as the primary
\* result in the same rows, each with the primary's Points and Position,
\* whatever the secondary returned.
C15_PrimaryWithPointsIsReturned ==
    (result # Pending /\ PositivePoints(f1)) =>
        /\ result.state = "ok"
        /\ result.tag = "fastf1"
        /\ Len(result.df) = Len(f1.rows)
        /\ \A i \in DOMAIN f1.rows :
              /\ result.df[i].Abbreviation = f1.rows[i].Abbreviation
              /\ result.df[i].Points = f1.rows[i].Points
              /\ result.df[i].Position = f1.rows[i].Position

\* the primary has positive points, and the secondary has positive (and
\* different) points too but does not list one of the primary's drivers
C15_Witness ==
    /\ result.state = "ok"
    /\ PositivePoints(f1)
    /\ PositivePoints(er)
    /\ \E i \in DOMAIN f1.rows : Matching(er.rows, f1.rows[i].Abbreviation) = {}
    /\ \E i \in DOMAIN f1.rows : \E j \in DOMAIN er.rows :
          /\ er.rows[j].Abbreviation = f1.rows[i].Abbreviation
          /\ er.rows[j].Points # f1.rows[i].Points

\* C16 as stated: when the primary result has no positive points, whatever the
\* reconciler returns is tagged 'ergast' if the secondary has positive points,
\* else 'f1+ergast_points' if the primary has a numeric position and the
\* secondary is available, else 'derived'.
C16_StrictPrecedence ==
    (result.state = "ok" /\ f1.state # "raise" /\ ~PositivePoints(f1)) =>
        result.tag =
            IF PositivePoints(er) THEN "ergast"
            ELSE IF NumericPosition(f1) /\ Available(er) THEN "f1+ergast_points"
            ELSE "derived"

\* C16 amended: the same precedence, each rule returning the rows of its
\* source, but the last rule returns the lap-derived classification tagged
\* 'derived' only when there are laps; without any it returns no rows tagged
\* 'derived_empty'.
C16_StrictPrecedenceOrDerivedEmpty ==
    (result.state = "ok" /\ f1.state # "raise" /\ ~PositivePoints(f1)) =>
        IF PositivePoints(er)
        THEN result.tag = "ergast" /\ Len(result.df) = Len(er.rows)
        ELSE IF NumericPosition(f1) /\ Available(er)
        THEN result.tag = "f1+ergast_points" /\ Len(result.df) = Len(f1.rows)
        ELSE IF laps.rows # << >>
        THEN result.tag = "derived" /\ Len(result.df) = Len(laps.rows)
        ELSE result.tag = "derived_empty" /\ result.df = << >>

\* no provider has points, the merge does not apply and there are no laps
C16_Witness ==
    /\ result.state = "ok"
    /\ f1.state = "frame"
    /\ f1.rows # << >>
    /\ ~PositivePoints(f1)
    /\ ~PositivePoints(er)
    /\ ~(NumericPosition(f1) /\ Available(er))
    /\ laps.rows = << >>
    /\ result.tag = "derived_empty"

\* C17 as stated: when both providers report zero total points and the
\* primary has finishing positions, the returned points are the top-10
\* schedule of the returned positions, non-increasing with the position.
C17_ZeroPointsRoundsGetDerivedPoints ==
    (/\ result # Pending
     /\ f1.state = "frame" /\ ~PositivePoints(f1) /\ NumericPosition(f1)
     /\ er.state = "frame" /\ er.rows # << >> /\ ~PositivePoints(er)) =>
        /\ result.state = "ok"
        /\ result.df # << >>
        /\ \A i \in DOMAIN result.df :
              result.df[i].Position \in DOMAIN Top10 =>
                  result.df[i].Points = Top10[result.df[i].Position]
        /\ \A i, j \in DOMAIN result.df :
              (/\ result.df[i].Position # NaN
               /\ result.df[j].Position # NaN
               /\ result.df[i].Position <= result.df[j].Position) =>
                  result.df[i].Points >= result.df[j].Points

\* C17 amended: when the primary reports zero total points and has finishing
\* positions, the secondary is unavailable and there are laps, the result is
\* tagged 'derived', its rows are numbered 1, 2, ... and carry the top-10
\* schedule of their number, non-increasing with the position.  (With a
\* secondary that reports zero points the merge rule applies instead, and
\* every driver gets 0 points.)
C17_DerivedPointsWithoutSecondary ==
    (/\ result # Pending
     /\ f1.state = "frame" /\ ~PositivePoints(f1) /\ NumericPosition(f1)
     /\ ~Available(er)
     /\ laps.state = "frame" /\ laps.rows # << >>) =>
        /\ result.state = "ok"
        /\ result.tag = "derived"
        /\ Len(result.df) = Len(laps.rows)
        /\ \A i \in DOMAIN result.df :
              /\ result.df[i].Position = i
              /\ result.df[i].Points = Top10[i]
        /\ \A i, j \in DOMAIN result.df :
              i <= j => result.df[i].Points >= result.df[j].Points

\* Scenario B: primary points 0 with positions VER 1, HAM 2, no secondary
\* data, the laps agreeing with the positions: VER 25, HAM 18, tag 'derived'
C17_Witness ==
    /\ result.state = "ok"
    /\ result.tag = "derived"
    /\ f1.state = "frame" /\ Len(f1.rows) = 2 /\ ~PositivePoints(f1)
    /\ \A i \in DOMAIN f1.rows : f1.rows[i].Position = i
    /\ er = NoFrame
    /\ Len(result.df) = 2
    /\ result.df[1].Abbreviation = "VER" /\ result.df[1].Points = 25
    /\ result.df[2].Abbreviation = "HAM" /\ result.df[2].Points = 18

\* C18: when the primary adapter fails and the secondary returns rows with
\* positive points, the reconciler returns the secondary result tagged
\* 'ergast'; and a failure of the secondary adapter alone does not make the
\* reconciler fail either.
C18_OneAdapterFailingIsRecovered ==
    result # Pending =>
        /\ (f1.state = "raise" /\ PositivePoints(er)) =>
              (result.state = "ok" /\ result.tag = "ergast")
        /\ (er.state = "raise" /\ f1.state # "raise" /\ laps.state # "raise") =>
              result.state = "ok"

\* the last lap of the driver of a returned row
LastLapOf(row) ==
    laps.rows[CHOOSE i \in DOMAIN laps.rows : laps.rows[i].Driver = row.Abbreviation]

\* C22: a classification derived from lap data lists every driver of the lap
\* data once, ordered by the last known race position ascending (drivers
\* without one last) and then by lap count descending, numbered 1..n, with
\* the points 25, 18, 15, 12, 10, 8, 6, 4, 2, 1 for the first ten and 0 beyond,
\* tagged 'derived'.  Scenario B: the primary reports no points, its lap
\* timing ends with VER 1st and HAM 2nd, and there is no secondary data: VER
\* gets 25 and HAM 18.
C22_DerivedClassification ==
    /\ (result.state = "ok" /\ result.tag = "derived") =>
          /\ Len(result.df) = Len(laps.rows)
          /\ \A i \in DOMAIN laps.rows : \E k \in DOMAIN result.df :
                result.df[k].Abbreviation = laps.rows[i].Driver
          /\ \A k \in DOMAIN result.df :
                /\ result.df[k].Position = k
                /\ result.df[k].Points = IF k <= 10 THEN Top10[k] ELSE 0
          /\ \A k, n \in DOMAIN result.df :
                k < n =>
                    LET x == LastLapOf(result.df[k])
                        y == LastLapOf(result.df[n])
                    IN  \/ x.Position # NaN /\ y.Position = NaN
                        \/ x.Position # NaN /\ y.Position # NaN
                           /\ x.Position < y.Position
                        \/ x.Position = y.Position /\ x.LapNumber > y.LapNumber
    /\ ( /\ result # Pending
         /\ f1.state = "frame" /\ ~PositivePoints(f1)
         /\ ~Available(er)
         /\ laps.state = "frame"
         /\ Len(laps.rows) = 2
         /\ \A i \in DOMAIN laps.rows :
               laps.rows[i].Position = IF laps.rows[i].Driver = "VER" THEN 1 ELSE 2 ) =>
          /\ result.state = "ok"
          /\ result.tag = "derived"
          /\ [ k \in DOMAIN result.df |->
                 << result.df[k].Abbreviation, result.df[k].Points >> ]
             = << << "VER", 25 >>, << "HAM", 18 >> >>

\* both drivers ended their last lap in the same position, and the one with
\* more laps is classified first
C22_Witness ==
    /\ result.state = "ok"
    /\ result.tag = "derived"
    /\ Len(laps.rows) = 2
    /\ laps.rows[1].Position = laps.rows[2].Position
    /\ laps.rows[1].Position # NaN
    /\ result.df[1].Abbreviation = laps.rows[2].Driver

\* neither provider has points, the merge of the primary's positions with the
\* secondary's points does not apply, and the lap timing has no laps
NothingUsable ==
    /\ f1.state # "raise"
    /\ ~PositivePoints(f1)
    /\ ~PositivePoints(er)
    /\ ~(NumericPosition(f1) /\ Available(er))
    /\ laps.state # "raise"
    /\ laps.rows = << >>

\* C23 as stated: when neither provider yields usable points or positions and
\* there is no lap data, load_results_strict fails with an error and returns
\* no result set.
C23_NoResultsIsAnError ==
    (result # Pending /\ NothingUsable) => result.state = "raise"

\* C23 amended: in that case load_results_strict returns normally, with the
\* tag 'derived_empty' and a result set without rows.
C23_NoResultsIsAnEmptyFrame ==
    (result # Pending /\ NothingUsable) =>
        /\ result.state = "ok"
        /\ result.tag = "derived_empty"
        /\ result.df = << >>

\* the primary has no results at all, the secondary has failed, no laps
C23_Witness ==
    /\ result.state = "ok"
    /\ f1 = NoFrame
    /\ er = Raises
    /\ laps = NoFrame
    /\ result.tag = "derived_empty"

\* ---- claims on the enrichment (SpecEnrich) ------------------------------

\* C24: enrichment returns the rows of the authoritative result, in their
\* order and with their Points and Position, and in every row and descriptive
\* column the value of the authoritative result where it has one, else the
\* value the other source has for the driver, else none: no present value is
\* changed or replaced by a missing one.
C24_EnrichmentKeepsPresentValues ==
    result.state = "ok" =>
        LET base == IF result.tag = "fastf1" THEN f1.rows ELSE er.rows
            source == IF result.tag = "fastf1" THEN er ELSE f1
        IN  /\ Len(result.df) = Len(base)
            /\ \A i \in DOMAIN base :
                  /\ result.df[i].Abbreviation = base[i].Abbreviation
                  /\ result.df[i].Points = base[i].Points
                  /\ result.df[i].Position = base[i].Position
                  /\ \A col \in {"Status", "GridPosition", "TeamName"} :
                        LET theirs == { source.rows[j][col] :
                                          j \in { k \in DOMAIN source.rows :
                                                    /\ source.rows[k].Abbreviation
                                                          = base[i].Abbreviation
                                                    /\ source.rows[k][col] # Missing(col) } }
                        IN  IF base[i][col] # Missing(col)
                            THEN result.df[i][col] = base[i][col]
                            ELSE IF theirs # {}
                            THEN result.df[i][col] \in theirs
                            ELSE result.df[i][col] = Missing(col)

\* the primary's row of VER has a status the secondary words differently and
\* no team name, which the secondary has; the secondary does not list HAM
C24_Witness ==
    /\ result.state = "ok"
    /\ result.tag = "fastf1"
    /\ Len(result.df) = 2
    /\ er.state = "frame" /\ Len(er.rows) = 1
    /\ f1.rows[1].Status = "Finished" /\ er.rows[1].Status = "+1 Lap"
    /\ result.df[1].Status = "Finished"
    /\ f1.rows[1].TeamName = "" /\ result.df[1].TeamName = "Red Bull"
    /\ f1.rows[1].GridPosition = NaN /\ er.rows[1].GridPosition = NaN
    /\ result.df[2] = f1.rows[2]

\* ---- claims on one round (SpecRound) ------------------------------------

\* a status text that is present, does not start with '+', is not 'finished'
\* or 'lapped' and is none of 'disqualified', 'did not start', 'excluded'
DnfText(s) ==
    s \notin {"", "+1 Lap", "Finished", "Lapped", "Disqualified",
              "Did not start", "Excluded"}

\* the driver is in the DNF map: the primary's session results list the driver
InDnfMap(c) ==
    f1.state = "frame" /\ \E i \in DOMAIN f1.rows : f1.rows[i].Abbreviation = c

\* C25: a returned row is classified DNF exactly when its status text is
\* present, does not start with '+', is not 'finished' or 'lapped' and is none
\* of 'disqualified', 'did not start', 'excluded' (a row of a driver absent
\* from the DNF map is not a DNF), and the aggregator counts a DNF for the
\* driver exactly for the rows so classified.
C25_DnfExactlyByStatusText ==
    /\ result.state = "ok" =>
          \A i \in DOMAIN result.df :
              result.df[i].DNF =
                  (InDnfMap(result.df[i].Abbreviation) /\ DnfText(result.df[i].Status))
    /\ results_by_driver # EmptyDict =>
          \A c \in DOMAIN results_by_driver :
              results_by_driver[c].dnfs =
                  Cardinality({ i \in DOMAIN result.df :
                                  /\ result.df[i].Abbreviation = c
                                  /\ InDnfMap(c)
                                  /\ DnfText(result.df[i].Status) })

\* ---- claims on the cache, continued (Spec) ------------------------------

\* C12 as stated: when the schedule fetch of a request for year Y fails, and
\* no other request has run since this one began, the request ends in a
\* non-2xx failure, no payload is produced, and the memory-tier and the
\* persisted-tier entries for Y are exactly what they were before the request.
C12_FailedScheduleLeavesTiersAsBefore ==
    \A r \in Requests :
        (pc[r] = "finally" /\ before[r] # None) =>
            /\ response[r].status \notin 200..299
            /\ response[r].body = ErrorBody
            /\ payload[r] = None
            /\ _MEM_SEASON[year[r]] = before[r].mem
            /\ season_file[year[r]] = before[r].file

\* C12 amended: in that case the request ends in a non-2xx failure, no payload
\* is produced, Y is not in the building set, the persisted-tier entry for Y
\* is exactly what it was before the request, and so is the memory-tier entry
\* unless it was past its TTL or under another schema version: then the memory
\* lookup of the request has discarded it.
C12_FailedScheduleStoresNothing ==
    \A r \in Requests :
        (pc[r] = "finally" /\ before[r] # None) =>
            /\ response[r].status \notin 200..299
            /\ response[r].body = ErrorBody
            /\ payload[r] = None
            /\ year[r] \notin _BUILDING
            /\ season_file[year[r]] = before[r].file
            /\ \/ _MEM_SEASON[year[r]] = before[r].mem
               \/ /\ _MEM_SEASON[year[r]] = None
                  /\ before[r].mem # None
                  /\ ~refresh[r]
                  /\ \/ now - before[r].mem.ts > _MEM_TTL_SECONDS
                     \/ before[r].mem.payload.schema_version # SCHEMA_VERSION

\* a request without refresh found both tiers filled, neither usable, and its
\* schedule fetch has failed
C12_Witness ==
    \E r \in Requests :
        /\ pc[r] = "finally"
        /\ before[r] # None
        /\ before[r].mem # None
        /\ before[r].file # None
        /\ response[r].status = 500

\* C14: a build whose every round was skipped, so that no driver at all came
\* out of the aggregation, is answered with a failure, and no payload with an
\* empty drivers mapping is stored in either tier.
C14_EmptySeasonIsAFailure ==
    /\ \A r \in Requests :
          response[r].cache = "built" => DOMAIN response[r].body.drivers # {}
    /\ \A y \in Years :
          /\ season_file[y] # None => DOMAIN season_file[y].drivers # {}
          /\ _MEM_SEASON[y] # None => DOMAIN _MEM_SEASON[y].payload.drivers # {}

\* ---- claims on the season aggregation (SpecSeason) ----------------------

\* a fetched round that returned rows (lines 403-408)
ReturnedRows(f) == f.res.state = "ok" /\ f.res.df # << >>

RECURSIVE RaceRowsOf(_, _)
\* the race rows of driver c in the given rounds, in their order
RaceRowsOf(c, rounds) ==
    IF rounds = << >> THEN << >>
    ELSE SelectSeq(Head(rounds).res.df, LAMBDA row : row.Abbreviation = c)
         \o RaceRowsOf(c, Tail(rounds))

RECURSIVE SprintRowsOf(_, _)
\* the sprint rows of driver c that carry points, in the given rounds
SprintRowsOf(c, rounds) ==
    IF rounds = << >> THEN << >>
    ELSE SelectSeq(Head(rounds).sprint,
                   LAMBDA row : row.Abbreviation = c /\ row.__SPTS__ > 0)
         \o SprintRowsOf(c, Tail(rounds))

\* the drivers with a race row or a scoring sprint row in the given rounds
DriversIn(rounds) ==
    { c \in {"VER", "HAM", "LEC"} :
        RaceRowsOf(c, rounds) # << >> \/ SprintRowsOf(c, rounds) # << >> }

\* what lines 483-508 and 205 add up for driver c over the given rounds
FoldOver(c, rounds) ==
    LET race == RaceRowsOf(c, rounds)
        sprints == SprintRowsOf(c, rounds)
        classified == SelectSeq(race, LAMBDA row : row.Position # NaN)
    IN  [points |-> SumSeq([i \in DOMAIN race |-> race[i].Points])
                    + SumSeq([i \in DOMAIN sprints |-> sprints[i].__SPTS__]),
         wins |-> Cardinality({ i \in DOMAIN race : race[i].Position = 1 }),
         podiums |-> Cardinality({ i \in DOMAIN race : race[i].Position \in 1..3 }),
         dnfs |-> Cardinality({ i \in DOMAIN race : race[i].DNF }),
         positions |-> [i \in DOMAIN classified |-> classified[i].Position]]

\* C13: rounds for which the reconciler fails or returns no rows are skipped
\* and the build goes on: at any point of the loop every driver's points, wins,
\* podiums, DNFs and positions are the fold over exactly the rounds so far that
\* returned rows, in schedule order; and when the build is done every round of
\* the schedule has been tried and the payload carries these values.
C13_SkippedRoundsLeaveTheFoldOfTheOthers ==
    LET counted == SelectSeq(fetched, ReturnedRows)
    IN  /\ step \in {"rounds", "done"} =>
              /\ DOMAIN results_by_driver = DriversIn(counted)
              /\ \A c \in DOMAIN results_by_driver :
                    LET d == results_by_driver[c]
                    IN  [points |-> d.points, wins |-> d.wins, podiums |-> d.podiums,
                         dnfs |-> d.dnfs, positions |-> d.positions]
                            = FoldOver(c, counted)
        /\ step = "done" =>
              /\ [i \in DOMAIN fetched |-> fetched[i].rnd]
                    = SelectSeq(schedule, LAMBDA rnd : rnd > 0)
              /\ DOMAIN out = DOMAIN results_by_driver
              /\ \A c \in DOMAIN out :
                    /\ out[c].total_points = results_by_driver[c].points
                    /\ out[c].wins = results_by_driver[c].wins
                    /\ out[c].podiums = results_by_driver[c].podiums
                    /\ out[c].dnfs = results_by_driver[c].dnfs

\* a finished build of two rounds: in the first both drivers were classified,
\* the second one failed
C13_Witness ==
    /\ step = "done"
    /\ Len(fetched) = 2
    /\ ReturnedRows(fetched[1])
    /\ Len(fetched[1].res.df) = 2
    /\ fetched[2].res = Raised
    /\ "VER" \in DOMAIN out
    /\ out["VER"].total_points > 0

\* the round a step of the loop has just folded in, when it returned rows
Folded(earlier, later) ==
    /\ Len(later) = Len(earlier) + 1
    /\ ReturnedRows(later[Len(later)])

\* the accumulator of driver c, or the zeroes of a driver not seen yet
EntryOf(rbd, c) ==
    IF c \in DOMAIN rbd THEN rbd[c] ELSE NewDriver(c, c, "", "", NaN)

\* the grid position of a race row: its own, or the qualifying position when
\* no row of the frame has one (lines 425-428)
GridOf(f, i) ==
    IF \E j \in DOMAIN f.res.df : f.res.df[j].GridPosition # NaN
    THEN f.res.df[i].GridPosition
    ELSE IF f.res.df[i].Abbreviation \in DOMAIN f.fallback_grid
         THEN f.fallback_grid[f.res.df[i].Abbreviation] ELSE NaN

\* the poles counted for driver c
PolesOf(counts, c) == IF c \in DOMAIN counts THEN counts[c] ELSE 0

\* C19: folding one round's rows, a driver's win count goes up by one exactly
\* when the row has position 1, the podium count exactly when the position is
\* at most 3, the position is appended to the driver's positions whenever the
\* row has one, and the pole of the round is counted for the driver with grid
\* position 1 and for nobody else.
C19_OneRoundFold ==
    [][Folded(fetched, fetched') =>
        LET f == fetched'[Len(fetched')]
            df == f.res.df
        IN  \A i \in DOMAIN df :
                LET c == df[i].Abbreviation
                    old == EntryOf(results_by_driver, c)
                    new == results_by_driver'[c]
                    pos == df[i].Position
                IN  /\ new.wins = old.wins + (IF pos = 1 THEN 1 ELSE 0)
                    /\ new.podiums = old.podiums + (IF pos \in 1..3 THEN 1 ELSE 0)
                    /\ new.positions = (IF pos # NaN THEN Append(old.positions, pos)
                                        ELSE old.positions)
                    /\ PolesOf(pole_counts', c) =
                          PolesOf(pole_counts, c) + (IF GridOf(f, i) = 1 THEN 1 ELSE 0)
                    /\ GridOf(f, i) = 1 =>
                          pole_rounds'[c] = (IF c \in DOMAIN pole_rounds
                                             THEN pole_rounds[c] ELSE << >>) \o << f.rnd >>
    ]_vars

\* Scenario A: one round, VER first with 25 points from grid position 1, HAM
\* second with 18 points, no sprint: VER has 1 pole, 1 win, 1 podium
C19_Witness ==
    /\ step = "done"
    /\ Len(fetched) = 1
    /\ ReturnedRows(fetched[1])
    /\ fetched[1].sprint = << >>
    /\ \E i, j \in DOMAIN fetched[1].res.df :
          /\ fetched[1].res.df[i].Abbreviation = "VER"
          /\ fetched[1].res.df[i].Points = 25
          /\ fetched[1].res.df[i].GridPosition = 1
          /\ fetched[1].res.df[j].Abbreviation = "HAM"
          /\ fetched[1].res.df[j].Points = 18
    /\ out["VER"].poles = 1
    /\ out["VER"].wins = 1
    /\ out["VER"].podiums = 1
    /\ out["HAM"].wins = 0
    /\ out["HAM"].podiums = 1
    /\ out["HAM"].poles = 0

\* C20: the sprint points of a round change only points: after the round every
\* driver's wins, podiums, DNFs, positions, poles and grid position are those
\* the race rows alone give (the zeroes of a new entry for a driver who only
\* scored in the sprint), and the points are those of the race rows plus the
\* driver's sprint points.
C20_SprintChangesOnlyPoints ==
    [][Folded(fetched, fetched') =>
        LET f == fetched'[Len(fetched')]
            race == AggregateRows(results_by_driver, f.res.df, f.fallback_grid)
        IN  /\ DOMAIN results_by_driver' =
                  DOMAIN race \cup { f.sprint[i].Abbreviation :
                                       i \in { j \in DOMAIN f.sprint : f.sprint[j].__SPTS__ > 0 } }
            /\ \A c \in DOMAIN results_by_driver' :
                  LET b == EntryOf(race, c)
                      a == results_by_driver'[c]
                  IN  /\ a.wins = b.wins
                      /\ a.podiums = b.podiums
                      /\ a.dnfs = b.dnfs
                      /\ a.positions = b.positions
                      /\ a.poles = b.poles
                      /\ a.grid_position = b.grid_position
                      /\ a.points = b.points
                            + SumSeq([i \in DOMAIN SprintRowsOf(c, << f >>) |->
                                        SprintRowsOf(c, << f >>)[i].__SPTS__])
    ]_vars

\* Scenario C: a sprint without reported points in a 3-2-1 year, LEC first:
\* LEC has 3 points and neither a win nor a podium
C20_Witness ==
    /\ season = 2021
    /\ Len(fetched) = 1
    /\ ReturnedRows(fetched[1])
    /\ \E i \in DOMAIN fetched[1].sprint :
          /\ fetched[1].sprint[i].Abbreviation = "LEC"
          /\ fetched[1].sprint[i].__SPTS__ = 3
    /\ "LEC" \in DOMAIN results_by_driver
    /\ results_by_driver["LEC"].points = 3
    /\ results_by_driver["LEC"].wins = 0
    /\ results_by_driver["LEC"].podiums = 0

\* the rows of the first backend that answered with rows (lines 219-226), or
\* no rows when none did
SprintSource(backends) ==
    LET answered == { i \in DOMAIN backends :
                        backends[i].state = "frame" /\ backends[i].rows # << >> }
    IN  IF answered = {} THEN << >>
        ELSE backends[CHOOSE i \in answered : \A j \in answered : i <= j].rows

\* the points per position of a sprint: 3-2-1 up to 2021, 8 down to 1 after
SprintSchedule(y) ==
    IF y <= 2021 THEN << 3, 2, 1 >> ELSE << 8, 7, 6, 5, 4, 3, 2, 1 >>

\* C26: the sprint points a round adds to a driver are exactly the points the
\* sprint source reports for the driver whenever the source reports a positive
\* total; the points by position (3-2-1 up to 2021, 8 down to 1 afterwards)
\* are added only when the source reports a total of zero.
C26_SprintScheduleOnlyWithoutReportedPoints ==
    [][Folded(fetched, fetched') =>
        LET f == fetched'[Len(fetched')]
            race == AggregateRows(results_by_driver, f.res.df, f.fallback_grid)
            source == SprintSource(f.backends)
            reported == [ i \in DOMAIN source |->
                            IF source[i].Points = NaN THEN 0 ELSE source[i].Points ]
            by_position == [ i \in DOMAIN source |->
                               IF source[i].Position \in DOMAIN SprintSchedule(season)
                               THEN SprintSchedule(season)[source[i].Position] ELSE 0 ]
            awarded == IF SumSeq(reported) > 0 THEN reported ELSE by_position
        IN  \A c \in {"VER", "HAM", "LEC"} :
                EntryOf(results_by_driver', c).points - EntryOf(race, c).points
                    = SumSeq([ i \in DOMAIN source |->
                                 IF source[i].Abbreviation = c THEN awarded[i] ELSE 0 ])
    ]_vars

\* a sprint of 2022 whose source reports 3 points for HAM, who retired from
\* the race: HAM has 3 points, not the 8 of the first position
C26_Witness ==
    /\ season = 2022
    /\ Len(fetched) = 1
    /\ ReturnedRows(fetched[1])
    /\ fetched[1].backends = << Raises, Frame(SprintReported) >>
    /\ \E i \in DOMAIN fetched[1].res.df :
          /\ fetched[1].res.df[i].Abbreviation = "HAM"
          /\ fetched[1].res.df[i].Points = 0
    /\ results_by_driver["HAM"].points = 3

\* ---- claims on the persisted store (SpecStore) --------------------------

\* C11: after save_season(Y, p), load_season(Y) returns a payload whose
\* schema_version and whose driver -> summary mapping are identical to those
\* of p, value by value and type by type.
C11_SaveThenLoadRoundTrip ==
    io = "loaded" =>
        /\ loaded.t = "dict"
        /\ loaded.items["schema_version"] = saving.items["schema_version"]
        /\ loaded.items["drivers"] = saving.items["drivers"]

\* a payload with two drivers, one of them with a fractional average finish,
\* no grid position and a pole round, has been saved and loaded
C11_Witness ==
    /\ io = "loaded"
    /\ DOMAIN saving.items["drivers"].items = {"VER", "HAM"}
    /\ saving.items["drivers"].items["VER"].items["avg_finish"] = PyFloat(15)
    /\ saving.items["drivers"].items["VER"].items["grid_position"] = PyNone
    /\ saving.items["drivers"].items["VER"].items["total_points"] = PyFloat(430)
    /\ saving.items["drivers"].items["VER"].items["pole_rounds"] = PyList(<< PyInt(1) >>)
    /\ loaded = saving

\* ---- claims on the cache, concluded (Spec) ------------------------------

\* C28: whenever every load_season invocation for a year has returned,
\* normally or with an error raised anywhere in the build, the year is not in
\* _BUILDING: no build, failed or not, leaves it behind.
C28_BuildingStateIsLeft ==
    \A y \in Years :
        (\A r \in Requests : pc[r] = "idle" \/ year[r] # y) => y \notin _BUILDING

\* the last running invocation has raised after adding its year to _BUILDING
\* and is about to return
C28_Witness ==
    \E r \in Requests :
        /\ pc[r] = "finally"
        /\ response[r].status = 500
        /\ year[r] \in _BUILDING
        /\ \A q \in Requests \ {r} : pc[q] = "idle"

\* C29: when two builds of a year reach save_season together, both calls
\* complete without error: a save_season that has written season_<year>.tmp
\* still finds that file when it replaces the season file with it.
C29_ConcurrentSavesBothComplete ==
    \A r \in Requests :
        pc[r] = "save_replace" => tmp_file[year[r]] # None

\* C30: a payload that a build has stored in both tiers and that the memory
\* tier would serve (within the TTL, current schema version) is a hit for the
\* read path of the persisted tier as well, a payload without drivers included.
C30_TiersAgreeOnHits ==
    \A y \in Years :
        ( /\ _MEM_SEASON[y] # None
          /\ ~Expired(_MEM_SEASON[y], now)
          /\ SchemaMatches(_MEM_SEASON[y].payload)
          /\ season_file[y] = _MEM_SEASON[y].payload )
        => DiskHit(season_file[y])

\* ---- claims on the sprint rounds (SpecSprintRounds) ---------------------
\* lines 527-530 and 176-207: sprint points were added in the round: the round
\* has race rows and a sprint row with points above zero
PointsAdded(f) ==
    /\ ReturnedRows(f)
    /\ \E i \in DOMAIN f.sprint : f.sprint[i].__SPTS__ > 0

\* the rounds of the build in which sprint points were added
ScoringRounds ==
    { fetched[i].rnd : i \in { j \in DOMAIN fetched : PointsAdded(fetched[j]) } }

\* the rounds of the build with race rows whose sprint results have rows
ProbedRounds ==
    { fetched[i].rnd :
        i \in { j \in DOMAIN fetched :
                  ReturnedRows(fetched[j]) /\ fetched[j].sprint # << >> } }

\* C27 as stated: the sprint_rounds of a built payload are exactly the rounds
\* for which sprint points were found and added during that build.
C27_SprintRoundsAreTheScoringRounds ==
    step = "done" => sprint_rounds = ScoringRounds

\* C27, amended: every round for which sprint points were added during the
\* build is in the sprint_rounds of the payload; the set is made of the rounds
\* the detection has listed for the year and of the rounds with race rows whose
\* sprint results have rows, whether or not any points were added for them.
C27_SprintRoundsHoldTheScoringRounds ==
    step = "done" =>
        /\ ScoringRounds \subseteq sprint_rounds
        /\ sprint_rounds =
              SetOf(_SPRINT_ROUNDS_CACHE[season].rounds) \cup ProbedRounds

\* a finished build with a round found by its sprint results alone, in which
\* points were added, and a round in the set for which none were added
C27_Witness ==
    /\ step = "done"
    /\ ScoringRounds \ SetOf(_SPRINT_ROUNDS_CACHE[season].rounds) # {}
    /\ sprint_rounds \ ScoringRounds # {}

RECURSIVE BuildOver(_, _)
\* lines 396-545 as a function of what the providers return for the rounds:
\* the accumulators after the rounds, from the accumulators acc
BuildOver(acc, rounds) ==
    IF rounds = << >> THEN acc
    ELSE LET f == Head(rounds)
             pole == PoleSitter(f.res.df, f.fallback_grid)
             after ==
                 IF ~ReturnedRows(f) THEN acc
                 ELSE [results_by_driver |->
                          _apply_sprint_points(
                              AggregateRows(acc.results_by_driver, f.res.df,
                                            f.fallback_grid), f.sprint),
                       pole_counts |->
                          [ c \in DOMAIN acc.pole_counts \cup pole |->
                              (IF c \in DOMAIN acc.pole_counts
                               THEN acc.pole_counts[c] ELSE 0)
                              + (IF c \in pole THEN 1 ELSE 0) ],
                       pole_rounds |->
                          [ c \in DOMAIN acc.pole_rounds \cup pole |->
                              (IF c \in DOMAIN acc.pole_rounds
                               THEN acc.pole_rounds[c] ELSE << >>)
                              \o (IF c \in pole THEN << f.rnd >> ELSE << >>) ],
                       sprint_rounds |->
                          lazy_probe(acc.sprint_rounds, f.rnd, f.sprint)]
         IN  BuildOver(after, Tail(rounds))

\* lines 383-612 in a process that has built nothing before: the drivers and
\* the sprint rounds of the payload, from the marks of the schedule and from
\* what the providers return for the rounds
FreshPayload(marks, rounds) ==
    LET memo == [y \in SeasonYears |-> None]
        acc == BuildOver(
                   [results_by_driver |-> EmptyDict, pole_counts |-> EmptyDict,
                    pole_rounds |-> EmptyDict,
                    sprint_rounds |-> SetOf(_detect_sprint_rounds(memo, season, marks))],
                   rounds)
    IN  [drivers |-> Finalised(MergePoles(acc.results_by_driver, acc.pole_counts,
                                          acc.pole_rounds)),
         sprint_rounds |-> SortedList(acc.sprint_rounds)]

\* C21: the season build is idempotent and independent of what the process
\* has done before: the payload of a finished build, whether it is the first
\* of the process or follows earlier builds, is the payload a process that has
\* built nothing computes from the same schedule and the same provider answers.
C21_BuildIndependentOfEarlierBuilds ==
    step = "done" =>
        [drivers |-> out, sprint_rounds |-> SortedList(sprint_rounds)]
            = FreshPayload(sprint_events, fetched)

====
